---- MODULE Spec2Model ----
(***************************************************************************)
(* A model of the l8web edge gateway: token extraction, the per-service   *)
(* request dispatcher with its federation fallback, the login handler,    *)
(* endpoint registration on the process-wide mux, and the SNI reverse     *)
(* proxy.  Go strings that the code inspects are sequences of             *)
(* one-character strings; strings that are only compared are TLA+ strings.*)
(***************************************************************************)
EXTENDS Integers, Sequences, FiniteSets, TLC

VARIABLES
    tokReq,         \* extractToken: the *http.Request given to the call
    tokOut,         \* extractToken: the returned string
    tokPc,          \* extractToken: "call" before the call, "done" after it
    vbOut,          \* ValidateBearerToken: what the call on tokReq did
    adjacentTokens, \* the Federation Map: primary token -> adjacent token
    dPc,            \* dispatcher: "idle", "serving" (request arrived), "done"
    dReq,           \* dispatcher: the request and the handler it arrived at
    dOut,           \* dispatcher: what serveHttp did for dReq
    dFed,           \* dispatcher: the provider's verdict on the mapped adjacent token
    lPc,            \* login: "idle", "serving", "done"
    lReq,           \* login: the credentials request
    lOut,           \* login: what Auth did for lReq
    mux,            \* http.DefaultServeMux: pattern -> the handler registered for it
    endPoints,      \* the RegisteredEndpoints set (package variable endPoints)
    authEnabled,    \* the process-wide authEnabled flag
    servers,        \* the RestServer objects created so far (their configurations)
    crashed,        \* the process ended in a panic
    lastReg,        \* history: the RegisterWebService call just made, if any
    regRun,         \* history: how many times in a row lastReg was called (up to 2)
    firstAbsent,    \* history: the first call of the run found the path unregistered
    hsOut,          \* proxy: the last TLS handshake and the certificate it was given
    prOut,          \* proxy: the last HTTP request and where it went
    sPc,            \* Start: "launch", "wait" (blocked on the channel), "returned"
    sNext,          \* Start: the index of the next listener to launch
    sRet,           \* Start: the error returned (0: none)
    lst,            \* per listener task: "none", "running", "serving", "failed", "ended"
    errChan,        \* the error channel's buffer
    firstSent,      \* history: the first error sent on the channel (0: none)
    rc,             \* client: the RestClient/GraphQLClient object (configuration, Token)
    cl,             \* client: the call in progress (Do/Execute) and what it did
    task,           \* concurrent handlers: per goroutine, what it runs and where it is
    held,           \* per lock (mtx, the endPoints SyncMap's), the goroutines holding it
    registeredAuth, \* the process-wide registeredAuth flag
    registered,     \* the process-wide set of VNet ports already taken as adjacents
    activated       \* history: Activate has run since the last NewRestServer

tokVars == <<tokReq, tokOut, tokPc, vbOut>>
dispVars == <<dPc, dReq, dOut, dFed>>
loginVars == <<lPc, lReq, lOut>>
gatewayVars == <<adjacentTokens, dispVars, loginVars>>
regVars == <<mux, endPoints, authEnabled, servers, crashed, lastReg, regRun, firstAbsent>>
proxyVars == <<hsOut, prOut>>
startVars == <<sPc, sNext, sRet, lst, errChan, firstSent>>
clientVars == <<rc, cl>>
taskVars == <<task, held>>
activateVars == <<registeredAuth, registered, activated>>
notToken == <<gatewayVars, regVars, proxyVars, startVars, clientVars, taskVars, activateVars>>
notGateway == <<tokVars, regVars, proxyVars, startVars, clientVars, taskVars, activateVars>>
notReg == <<tokVars, gatewayVars, proxyVars, startVars, clientVars, taskVars, activateVars>>
notProxy == <<tokVars, gatewayVars, regVars, startVars, clientVars, taskVars, activateVars>>
notStart == <<tokVars, gatewayVars, regVars, proxyVars, clientVars, taskVars, activateVars>>
notClient == <<tokVars, gatewayVars, regVars, proxyVars, startVars, taskVars, activateVars>>
notActivate == <<tokVars, gatewayVars, proxyVars, startVars, clientVars, taskVars>>
notTask == <<tokVars, gatewayVars, regVars, proxyVars, startVars, clientVars, activateVars>>

-----------------------------------------------------------------------------
(* Go string helpers (package strings) *)

UpperChars == <<"A","B","C","D","E","F","G","H","I","J","K","L","M",
                "N","O","P","Q","R","S","T","U","V","W","X","Y","Z">>

LowerChars == <<"a","b","c","d","e","f","g","h","i","j","k","l","m",
                "n","o","p","q","r","s","t","u","v","w","x","y","z">>

LowerChar(c) ==
    IF \E i \in 1..Len(UpperChars) : UpperChars[i] = c
    THEN LowerChars[CHOOSE i \in 1..Len(UpperChars) : UpperChars[i] = c]
    ELSE c

\* strings.ToLower
ToLower(s) == [i \in 1..Len(s) |-> LowerChar(s[i])]

\* strings.HasPrefix
HasPrefix(s, p) == Len(s) >= Len(p) /\ SubSeq(s, 1, Len(p)) = p

\* the index of the first occurrence of character c in s, 0 when there is none
IndexOf(s, c) ==
    IF \E i \in 1..Len(s) : s[i] = c
    THEN CHOOSE i \in 1..Len(s) : s[i] = c /\ \A j \in 1..(i-1) : s[j] # c
    ELSE 0

\* strings.SplitN(s, sep, 2) for a one-character separator
SplitN2(s, c) ==
    IF IndexOf(s, c) = 0
    THEN <<s>>
    ELSE <<SubSeq(s, 1, IndexOf(s, c) - 1), SubSeq(s, IndexOf(s, c) + 1, Len(s))>>

\* strings.Split(s, sep)[0] for a one-character separator
SplitFirst(s, c) ==
    IF IndexOf(s, c) = 0 THEN s ELSE SubSeq(s, 1, IndexOf(s, c) - 1)

Empty == <<>>
BearerWord == <<"B","e","a","r","e","r">>
bearerWord == <<"b","e","a","r","e","r">>
BEARERWord == <<"B","E","A","R","E","R">>
BasicWord  == <<"B","a","s","i","c">>
Space == <<" ">>

-----------------------------------------------------------------------------
(* Token extraction: CoockieToken.go *)

\* the tokens requests carry in this model
TokA == <<"A">>
TokB == <<"B">>
TokC == <<"C">>

\* Authorization header values given to extractToken
TokenHeaders ==
    { Empty, TokB, BearerWord \o Space \o TokB, bearerWord \o Space \o TokB,
      BEARERWord \o Space \o TokB, BasicWord \o Space \o TokB,
      BearerWord \o Space, BearerWord }

\* requests given to extractToken: the bToken cookie value (empty when the
\* cookie is absent or empty), the Authorization header, the token parameter
TokenRequests ==
    [cookie : {Empty, TokA, TokC}, header : TokenHeaders, query : {Empty, TokC, TokA}]

extractToken(r) ==
    LET parts == SplitN2(r.header, " ")
    IN  IF r.cookie # Empty
        THEN r.cookie
        ELSE IF r.header # Empty /\ Len(parts) = 2 /\ ToLower(parts[1]) = bearerWord
        THEN parts[2]
        ELSE IF r.query # Empty
        THEN r.query
        ELSE Empty

\* ValidateBearerToken not called yet
NoValidation == [called |-> FALSE, validated |-> FALSE, credential |-> Empty, err |-> ""]

\* ValidateBearerToken: the credential given to ValidateToken and the error
\* returned; ok is the provider's answer for that credential
ValidateBearerToken(r, ok) ==
    LET bearer == IF r.header # Empty THEN r.header ELSE extractToken(r)
    IN  IF bearer = Empty
        THEN [called |-> TRUE, validated |-> FALSE, credential |-> Empty,
              err |-> "unauthorized"]
        ELSE [called |-> TRUE, validated |-> TRUE, credential |-> bearer,
              err |-> IF ok THEN "" ELSE "unauthorized"]

TokInit ==
    /\ tokReq \in TokenRequests
    /\ tokOut = Empty
    /\ tokPc = "call"
    /\ vbOut = NoValidation

TokIdle ==
    /\ tokReq = [cookie |-> Empty, header |-> Empty, query |-> Empty]
    /\ tokOut = Empty
    /\ tokPc = "call"
    /\ vbOut = NoValidation

\* one call of extractToken on the request drawn by Init
ExtractTokenCall ==
    /\ tokPc = "call"
    /\ tokOut' = extractToken(tokReq)
    /\ tokPc' = "done"
    /\ UNCHANGED <<tokReq, vbOut, notToken>>

\* one call of ValidateBearerToken on the same request
ValidateBearerTokenCall ==
    /\ ~vbOut.called
    /\ \E ok \in BOOLEAN : vbOut' = ValidateBearerToken(tokReq, ok)
    /\ UNCHANGED <<tokReq, tokOut, tokPc, notToken>>

-----------------------------------------------------------------------------
(* The security provider, an external collaborator: its answers are inputs *)

SetupTFA == "Token Setup TFA"
NeedTFA == "Token Need TFA Verification"

\* what ValidateToken can answer: (identity, ok)
Verdicts ==
    { [id |-> "alice", ok |-> TRUE], [id |-> "bob", ok |-> TRUE],
      [id |-> "", ok |-> FALSE], [id |-> "expired", ok |-> FALSE],
      [id |-> SetupTFA, ok |-> FALSE], [id |-> NeedTFA, ok |-> FALSE] }

NoVerdict == [id |-> "", ok |-> FALSE]

\* tokens the primary provider issues at login, and adjacent providers' tokens
PrimaryTokens == {TokA, TokB}
TokX == <<"X">>
TokY == <<"Y">>
AdjacentTokens == {TokX, TokY, Empty}

-----------------------------------------------------------------------------
(* Verbs, actions and bodies: methodToAction *)

MethodGet == <<"G","E","T">>
MethodPost == <<"P","O","S","T">>
MethodPut == <<"P","U","T">>
MethodPatch == <<"P","A","T","C","H">>
MethodDelete == <<"D","E","L","E","T","E">>
MethodHead == <<"H","E","A","D">>
\* a request line with a lower-case verb
MethodGetLower == <<"g","e","t">>

Methods ==
    {MethodGet, MethodPost, MethodPut, MethodPatch, MethodDelete, MethodHead, MethodGetLower}

\* ifs.Action values
Actions ==
    {"POST", "GET", "DELETE", "PUT", "PATCH",
     "MapR_POST", "MapR_GET", "MapR_DELETE", "MapR_PUT", "MapR_PATCH"}

MapReduceWord == <<"m","a","p","r","e","d","u","c","e">>

\* texts a message can carry
QueryTexts ==
    { <<"m","a","p","r","e","d","u","c","e">>, <<"M","a","p","R","e","d","u","c","e">>,
      <<"x","M","A","P","R","E","D","U","C","E","y">>,
      <<"m","a","p","r","e","d","u","c">>, <<"s","e","l","e","c","t">> }

\* message bodies: nil, a typed message of the service, a generic query
NilBody == [type |-> "nil", text |-> Empty]
ZeroMessage == [type |-> "TestProto", text |-> Empty]
HelloWord == <<"H","e","l","l","o">>
Bodies ==
    {ZeroMessage, [type |-> "TestProto", text |-> MapReduceWord],
     [type |-> "TestProto", text |-> HelloWord]}
    \cup [type : {"L8Query"}, text : QueryTexts]

\* strings.Contains, for a non-empty substr
Contains(s, substr) ==
    \E i \in 1..(Len(s) - Len(substr) + 1) : SubSeq(s, i, i + Len(substr) - 1) = substr

\* a test for the word in lower case only
IsMapReduceLowerOnly(body) ==
    body.type = "L8Query" /\ Contains(body.text, MapReduceWord)

\* body.(*l8api.L8Query) succeeds and its text mentions mapreduce
IsMapReduce(body) ==
    body.type = "L8Query" /\ Contains(ToLower(body.text), MapReduceWord)

methodToAction(method, body) ==
    IF method = MethodPost
    THEN (IF IsMapReduce(body) THEN "MapR_POST" ELSE "POST")
    ELSE IF method = MethodGet
    THEN (IF IsMapReduce(body) THEN "MapR_GET" ELSE "GET")
    ELSE IF method = MethodDelete
    THEN (IF IsMapReduce(body) THEN "MapR_DELETE" ELSE "DELETE")
    ELSE IF method = MethodPut
    THEN (IF IsMapReduce(body) THEN "MapR_PUT" ELSE "PUT")
    ELSE IF method = MethodPatch
    THEN (IF IsMapReduce(body) THEN "MapR_PATCH" ELSE "PATCH")
    ELSE "GET"

-----------------------------------------------------------------------------
(* The per-service dispatcher: ServiceHandler.serveHttp *)

HealthService == "Health"
EchoService == "Echo"

\* the handlers a request can arrive at: ServiceHandler{authEnabled, serviceName}
Handlers == [authEnabled : BOOLEAN, serviceName : {HealthService, EchoService}]

\* Authorization header values of dispatcher requests
DispatchHeaders ==
    { Empty, TokA, BearerWord \o Space \o TokA, bearerWord \o Space \o TokA,
      BEARERWord \o Space \o TokA, BearerWord \o Space \o TokB,
      BearerWord \o Space, BearerWord \o <<"-">> \o TokA }

\* a dispatcher request: its three token sources, and the provider's verdict
\* on the credential it presents
DispatchRequests ==
    [handler : Handlers, header : DispatchHeaders, cookie : {Empty, TokA},
     query : {Empty, TokA}, verdict : Verdicts,
     method : {MethodPost}, data : {"{msg}"}, qBody : {""}]

NoRequest ==
    [handler |-> [authEnabled |-> FALSE, serviceName |-> EchoService],
     header |-> Empty, cookie |-> Empty, query |-> Empty, verdict |-> NoVerdict,
     method |-> MethodGet, data |-> "", qBody |-> ""]

\* the federation lookup key: a leading bearer scheme is cut off
FedKey(bearer) ==
    IF Len(bearer) > 7 /\ (HasPrefix(bearer, bearerWord) \/ HasPrefix(bearer, BearerWord))
    THEN SubSeq(bearer, 8, Len(bearer))
    ELSE bearer

\* a map read that never finds the key
MapGetMiss(m, key) == [val |-> Empty, ok |-> FALSE]

\* Go's two-value map read: aToken, ok = adjacentTokens[key]
MapGet(m, key) ==
    IF key \in DOMAIN m
    THEN [val |-> m[key], ok |-> TRUE]
    ELSE [val |-> Empty, ok |-> FALSE]

\* the fields serveHttp's run leaves behind: the response (status 0: none
\* written), the calls it made and the locals the claims speak of
NoCall == [made |-> FALSE, withId |-> FALSE, identity |-> "", kind |-> "", dest |-> "",
           action |-> "", body |-> NilBody]
NoRouting == [Target |-> "", Method |-> ""]
NoResult == [res |-> "", text |-> "", echo |-> FALSE]
NoJson == [list |-> <<>>]
NoProtos == [called |-> FALSE, data |-> "", action |-> "", err |-> FALSE, body |-> NilBody]
NoOut ==
    [status |-> 0, body |-> "", validated |-> <<>>, fedRead |-> FALSE,
     aaaid |-> "", bodyRead |-> FALSE, parsed |-> FALSE, call |-> NoCall,
     readErr |-> FALSE, protos |-> NoProtos, routing |-> NoRouting,
     result |-> NoResult, json |-> NoJson]

Unauthorized(out, text) == [out EXCEPT !.status = 401, !.body = text]

\* a sentinel test that knows only one of the two sentinels
IsTFASentinelSetupOnly(id) == id = SetupTFA

IsTFASentinel(id) == id = SetupTFA \/ id = NeedTFA

\* serveHttp, the authentication part: the out record with status 401 when the
\* request is rejected and status 0, aaaid set, when it goes on
Authenticated(r, fedMap, fed) ==
    LET bearer == r.header
        direct == r.verdict
        out1 == [NoOut EXCEPT !.validated = <<[cred |-> bearer, verdict |-> direct]>>]
        hit == MapGet(fedMap, FedKey(bearer))
        aToken == hit.val
        out2 == [out1 EXCEPT !.fedRead = TRUE]
        out3 == [out2 EXCEPT !.validated = Append(@, [cred |-> aToken, verdict |-> fed])]
        id == IF aToken # Empty THEN fed.id ELSE direct.id
        ok == IF aToken # Empty THEN fed.ok ELSE hit.ok
        outF == IF aToken # Empty THEN out3 ELSE out2
    IN  IF ~r.handler.authEnabled
        THEN NoOut
        ELSE IF bearer = Empty
        THEN Unauthorized(NoOut, "")
        ELSE IF ~direct.ok /\ IsTFASentinel(direct.id)
        THEN Unauthorized(out1, direct.id)
        ELSE IF direct.ok
        THEN [out1 EXCEPT !.aaaid = direct.id]
        ELSE IF ~ok
        THEN Unauthorized(outF, "")
        ELSE [outF EXCEPT !.aaaid = id]

\* the process-wide routing configuration: var Target, var Method
Targets == {"", "target-uuid"}
RoutingMethods == {"M_Leader", "M_Local", "M_Proximity", "M_All"}

\* SysConfig().RemoteUuid of the handler's vnic
RemoteUuid == "vnet-uuid"

\* what Protos can answer for the body text: an error, or the typed message
ProtosResults ==
    {[err |-> TRUE, body |-> NilBody]} \cup [err : {FALSE}, body : Bodies]

BodyResults == {"readErr", "protosErr", "ok"}
CallResults == {"error", "listErr", "marshalErr", "ok"}

\* the error texts of the overlay
ErrorTexts == {"no such element", "access denied"}

\* what the overlay call and the serialization of its result give
\* (echo: the service behind the overlay answers with the message it was sent)
CallOutcomes ==
    [res : {"error"}, text : ErrorTexts, echo : {FALSE}]
    \cup [res : {"listErr", "marshalErr"}, text : {""}, echo : {FALSE}]
    \cup [res : {"ok"}, text : {""}, echo : BOOLEAN]

\* what a run of serveHttp meets outside the request: whether the body reads,
\* what Protos answers, the routing configuration, what the overlay answers
Envs ==
    [readErr : BOOLEAN, protos : ProtosResults, Target : Targets,
     Method : RoutingMethods, call : CallOutcomes]

\* the environment with the default configuration (no Target, M_Leader)
EnvOf(bodyRes, callRes) ==
    [readErr |-> bodyRes = "readErr",
     protos |-> IF bodyRes = "protosErr"
                THEN [err |-> TRUE, body |-> NilBody]
                ELSE [err |-> FALSE, body |-> ZeroMessage],
     Target |-> "", Method |-> "M_Leader",
     call |-> [res |-> callRes, text |-> IF callRes = "error" THEN "no such element" ELSE "",
               echo |-> FALSE]]

\* an overlay call that always follows the Target and Method resolution
OverlayCallRouted(r, aaaid, action, body, env) ==
    LET call == [made |-> TRUE, withId |-> TRUE, identity |-> aaaid, kind |-> "",
                 dest |-> "", action |-> action, body |-> body]
    IN  IF env.Target # ""
        THEN [call EXCEPT !.kind = "Request", !.dest = env.Target]
        ELSE IF env.Method = "M_Leader"
        THEN [call EXCEPT !.kind = "LeaderRequest"]
        ELSE IF env.Method = "M_Local"
        THEN [call EXCEPT !.kind = "LocalRequest"]
        ELSE [call EXCEPT !.kind = "ProximityRequest"]

\* an overlay call that sends the message of the first methodToAction call
OverlayCallNilBody(r, aaaid, action, body, env) ==
    [OverlayCallRouted(r, aaaid, action, NilBody, env) EXCEPT
        !.withId = r.handler.serviceName # HealthService]

\* the overlay call: the health service is addressed without an identity
OverlayCall(r, aaaid, action, body, env) ==
    LET call == [made |-> TRUE, withId |-> TRUE, identity |-> aaaid, kind |-> "",
                 dest |-> "", action |-> action, body |-> body]
    IN  IF r.handler.serviceName = HealthService
        THEN [call EXCEPT !.kind = "Request", !.dest = RemoteUuid,
                          !.withId = FALSE, !.identity = ""]
        ELSE IF env.Target # ""
        THEN [call EXCEPT !.kind = "Request", !.dest = env.Target]
        ELSE IF env.Method = "M_Leader"
        THEN [call EXCEPT !.kind = "LeaderRequest"]
        ELSE IF env.Method = "M_Local"
        THEN [call EXCEPT !.kind = "LocalRequest"]
        ELSE [call EXCEPT !.kind = "ProximityRequest"]

\* the elements the overlay returns for the call
Elements(outcome, call) ==
    IF outcome.echo THEN <<call.body>> ELSE <<ZeroMessage>>

\* the JSON written for a successful call: the list message that AsList
\* makes of the elements, serialized
ResponseJson(outcome, call) ==
    IF outcome.res = "ok" THEN [list |-> Elements(outcome, call)] ELSE NoJson

\* a body source that prefers the query parameter whenever the verb is GET
BodySourceQueryFirst(r) ==
    IF ToLower(r.method) = MethodGetLower /\ r.qBody # "" THEN r.qBody ELSE r.data

\* the JSON source: the body read, or the body query parameter for a GET
\* whose body is empty
BodySource(r) ==
    IF ToLower(r.method) = MethodGetLower /\ r.data = "" THEN r.qBody ELSE r.data

\* the response after the overlay call
Response(call) ==
    IF call.res = "error"
    THEN [status |-> 400, body |-> "Error from single request:" \o call.text]
    ELSE IF call.res = "listErr"
    THEN [status |-> 200, body |-> "{}"]
    ELSE IF call.res = "marshalErr"
    THEN [status |-> 200, body |-> "Erorr marshaling:"]
    ELSE [status |-> 200, body |-> "json"]

\* a handler that goes on to the overlay when Protos fails
serveHttpLenient(r, fedMap, fed, env) ==
    LET a == Authenticated(r, fedMap, fed)
        b == [a EXCEPT !.bodyRead = TRUE]
        action == methodToAction(r.method, env.protos.body)
        c == [b EXCEPT !.parsed = TRUE,
                       !.protos = [called |-> TRUE, data |-> BodySource(r),
                                   action |-> methodToAction(r.method, NilBody),
                                   err |-> env.protos.err, body |-> env.protos.body],
                       !.routing = [Target |-> env.Target, Method |-> env.Method],
                       !.call = OverlayCall(r, a.aaaid, action, env.protos.body, env),
                       !.result = env.call,
                       !.json = ResponseJson(env.call,
                                    OverlayCall(r, a.aaaid, action, env.protos.body, env))]
    IN  IF a.status = 401
        THEN a
        ELSE IF env.readErr
        THEN [a EXCEPT !.status = 400, !.body = "Failed to read body", !.readErr = TRUE]
        ELSE [c EXCEPT !.status = Response(env.call).status,
                       !.body = Response(env.call).body]

\* serveHttp, whole: fed is the provider's answer for the mapped adjacent
\* token, env what the run meets outside the request
serveHttp(r, fedMap, fed, env) ==
    LET a == Authenticated(r, fedMap, fed)
        b == [a EXCEPT !.bodyRead = TRUE,
                       !.protos = [called |-> TRUE, data |-> BodySource(r),
                                   action |-> methodToAction(r.method, NilBody),
                                   err |-> env.protos.err, body |-> env.protos.body]]
        action == methodToAction(r.method, env.protos.body)
        c == [b EXCEPT !.parsed = TRUE,
                       !.routing = [Target |-> env.Target, Method |-> env.Method],
                       !.call = OverlayCall(r, a.aaaid, action, env.protos.body, env),
                       !.result = env.call,
                       !.json = ResponseJson(env.call,
                                    OverlayCall(r, a.aaaid, action, env.protos.body, env))]
    IN  IF a.status = 401
        THEN a
        ELSE IF env.readErr
        THEN [a EXCEPT !.status = 400, !.body = "Failed to read body", !.readErr = TRUE]
        ELSE IF env.protos.err
        THEN [b EXCEPT !.status = 400, !.body = "Cannot find pb"]
        ELSE [c EXCEPT !.status = Response(env.call).status,
                       !.body = Response(env.call).body]

\* requests with every verb and body source, for handlers with and without
\* authentication
HandleRequests ==
    [handler : Handlers, header : {Empty, TokA}, cookie : {Empty}, query : {Empty},
     verdict : {[id |-> "alice", ok |-> TRUE], [id |-> "", ok |-> FALSE]},
     method : Methods, data : {"", "{msg}"}, qBody : {"", "{query}"}]

-----------------------------------------------------------------------------
(* Login: WebService.Auth *)

NumAdjacent == 2

\* what Authenticate can answer on the primary network
PrimaryAnswers ==
    {[err |-> TRUE, token |-> Empty, needTfa |-> FALSE, setupTfa |-> FALSE]}
    \cup [err : {FALSE}, token : PrimaryTokens, needTfa : BOOLEAN, setupTfa : BOOLEAN]

\* what Authenticate can answer on an adjacent network
AdjacentAnswers ==
    {[err |-> TRUE, token |-> Empty]} \cup [err : {FALSE}, token : AdjacentTokens]

\* a login request: how its body reads, and the providers' answers to it
LoginRequests ==
    [body : {"readErr", "parseErr", "ok"}, primary : PrimaryAnswers,
     adjacent : [1..NumAdjacent -> AdjacentAnswers]]

NoLogin ==
    [body |-> "ok",
     primary |-> [err |-> TRUE, token |-> Empty, needTfa |-> FALSE, setupTfa |-> FALSE],
     adjacent |-> [i \in 1..NumAdjacent |-> [err |-> TRUE, token |-> Empty]]]

NoCookie == [set |-> FALSE, value |-> Empty, httpOnly |-> FALSE, secure |-> FALSE,
             sameSiteStrict |-> FALSE, maxAge |-> 0]
NoLoginOut ==
    [status |-> 0, token |-> Empty, needTfa |-> FALSE, setupTfa |-> FALSE,
     error |-> "", cookie |-> NoCookie, contacted |-> 0]

\* adjacentTokens[token] = aToken
\* a map write that keeps only the pair written
MapPutOnly(m, key, val) == [k \in {key} |-> val]

MapPut(m, key, val) == [k \in DOMAIN m \cup {key} |-> IF k = key THEN val ELSE m[k]]

\* a loop over this.adjacents that records the answer of a failed call too
RECURSIVE RecordAdjacentAlways(_, _, _, _)
RecordAdjacentAlways(m, token, answers, i) ==
    IF i > NumAdjacent
    THEN m
    ELSE RecordAdjacentAlways(MapPut(m, token, answers[i].token), token, answers, i + 1)

\* a loop over this.adjacents that stops at the first network that accepts
RECURSIVE RecordAdjacentFirst(_, _, _, _)
RecordAdjacentFirst(m, token, answers, i) ==
    IF i > NumAdjacent
    THEN m
    ELSE IF answers[i].err
    THEN RecordAdjacentFirst(m, token, answers, i + 1)
    ELSE MapPut(m, token, answers[i].token)

\* the loop over this.adjacents from the i-th adjacent network on
RECURSIVE RecordAdjacent(_, _, _, _)
RecordAdjacent(m, token, answers, i) ==
    IF i > NumAdjacent
    THEN m
    ELSE RecordAdjacent(IF answers[i].err THEN m ELSE MapPut(m, token, answers[i].token),
                        token, answers, i + 1)

CookieMaxAge == 86400

\* a bearer cookie for local development without HTTPS
BearerCookieInsecure(token) ==
    [set |-> TRUE, value |-> token, httpOnly |-> TRUE, secure |-> FALSE,
     sameSiteStrict |-> TRUE, maxAge |-> CookieMaxAge]

\* the http.Cookie handed to http.SetCookie
BearerCookie(token) ==
    [set |-> TRUE, value |-> token, httpOnly |-> TRUE, secure |-> TRUE,
     sameSiteStrict |-> TRUE, maxAge |-> CookieMaxAge]

\* the response of Auth
AuthOut(l) ==
    IF l.body = "readErr"
    THEN [NoLoginOut EXCEPT !.status = 400, !.error = "Failed to read user/pass #1"]
    ELSE IF l.body = "parseErr"
    THEN [NoLoginOut EXCEPT !.status = 400, !.error = "Failed to read user/pass #2"]
    ELSE IF l.primary.err
    THEN [NoLoginOut EXCEPT !.status = 401, !.error = "authentication failed"]
    ELSE [NoLoginOut EXCEPT
            !.status = 200, !.token = l.primary.token,
            !.needTfa = l.primary.needTfa, !.setupTfa = l.primary.setupTfa,
            !.cookie = BearerCookie(l.primary.token),
            !.contacted = NumAdjacent]

\* an Auth that goes on to the adjacent networks whatever the primary answers
AuthMapAnyPrimary(l, m) ==
    IF l.body = "ok"
    THEN RecordAdjacent(m, l.primary.token, l.adjacent, 1)
    ELSE m

\* the Federation Map after Auth
AuthMap(l, m) ==
    IF l.body = "ok" /\ ~l.primary.err
    THEN RecordAdjacent(m, l.primary.token, l.adjacent, 1)
    ELSE m

-----------------------------------------------------------------------------
(* The gateway's handlers as actions *)

Idle == dPc = "idle" /\ lPc = "idle"

\* a request arrives at a service handler
DispatchArrive ==
    /\ Idle
    /\ dReq' \in DispatchRequests
    /\ dPc' = "serving"
    /\ UNCHANGED <<dOut, dFed, adjacentTokens, loginVars, notGateway>>

\* the handler runs
ServeHttp ==
    /\ dPc = "serving"
    /\ \E fed \in Verdicts, bodyRes \in BodyResults, callRes \in CallResults :
         /\ dOut' = serveHttp(dReq, adjacentTokens, fed, EnvOf(bodyRes, callRes))
         /\ dFed' = fed
    /\ dPc' = "done"
    /\ UNCHANGED <<dReq, adjacentTokens, loginVars, notGateway>>

\* a request with any verb and body arrives at a service handler
HandleArrive ==
    /\ Idle
    /\ dReq' \in HandleRequests
    /\ dPc' = "serving"
    /\ UNCHANGED <<dOut, dFed, adjacentTokens, loginVars, notGateway>>

\* the handler runs, in any environment
HandleHttp ==
    /\ dPc = "serving"
    /\ \E env \in Envs :
         dOut' = serveHttp(dReq, adjacentTokens, NoVerdict, env)
    /\ dFed' = NoVerdict
    /\ dPc' = "done"
    /\ UNCHANGED <<dReq, adjacentTokens, loginVars, notGateway>>

\* the response has been delivered
DispatchFinish ==
    /\ dPc = "done"
    /\ dPc' = "idle"
    /\ dReq' = NoRequest
    /\ dOut' = NoOut
    /\ dFed' = NoVerdict
    /\ UNCHANGED <<adjacentTokens, loginVars, notGateway>>

\* credentials are posted to /auth
LoginArrive ==
    /\ Idle
    /\ lReq' \in LoginRequests
    /\ lPc' = "serving"
    /\ UNCHANGED <<lOut, adjacentTokens, dispVars, notGateway>>

\* the login handler runs
Auth ==
    /\ lPc = "serving"
    /\ lOut' = AuthOut(lReq)
    /\ adjacentTokens' = AuthMap(lReq, adjacentTokens)
    /\ lPc' = "done"
    /\ UNCHANGED <<lReq, dispVars, notGateway>>

LoginFinish ==
    /\ lPc = "done"
    /\ lPc' = "idle"
    /\ lReq' = NoLogin
    /\ lOut' = NoLoginOut
    /\ UNCHANGED <<adjacentTokens, dispVars, notGateway>>

GatewayInit ==
    /\ adjacentTokens = <<>>
    /\ dPc = "idle"
    /\ dReq = NoRequest
    /\ dOut = NoOut
    /\ dFed = NoVerdict
    /\ lPc = "idle"
    /\ lReq = NoLogin
    /\ lOut = NoLoginOut

-----------------------------------------------------------------------------
(* Endpoint registration: RestServer *)

Digits == <<"0","1","2","3","4","5","6","7","8","9">>

\* strconv.Itoa of a byte
Itoa(n) ==
    IF n < 10
    THEN <<Digits[n + 1]>>
    ELSE IF n < 100
    THEN <<Digits[(n \div 10) + 1], Digits[(n % 10) + 1]>>
    ELSE <<Digits[(n \div 100) + 1], Digits[((n \div 10) % 10) + 1], Digits[(n % 10) + 1]>>

\* the configurations NewRestServer is called with
ServerConfigs == [Prefix : {<<"/">>, <<"/","1">>}, Authentication : BOOLEAN]

\* the web services registered: (serviceName, serviceArea)
WebServices == [ServiceName : {<<"E">>}, ServiceArea : {1, 11}]

\* {Prefix}{serviceArea}/{serviceName}
patternOf(rs, ws) == rs.Prefix \o Itoa(ws.ServiceArea) \o <<"/">> \o ws.ServiceName

\* a registration that does not look at the endPoints set
NotRegisteredNever(path, eps) == TRUE

\* _, ok := endPoints.Get(path); if !ok
NotRegistered(path, eps) == path \notin eps

NoReg == [rs |-> [Prefix |-> Empty, Authentication |-> FALSE],
          ws |-> [ServiceName |-> Empty, ServiceArea |-> 0]]

\* NewRestServer: the process-wide mux is replaced by an empty one
NewRestServer(config) ==
    /\ ~crashed
    /\ servers' = servers \cup {config}
    /\ mux' = <<>>
    /\ lastReg' = NoReg
    /\ regRun' = 0
    /\ firstAbsent' = FALSE
    /\ activated' = FALSE
    /\ UNCHANGED <<endPoints, authEnabled, crashed, registeredAuth, registered,
                   notActivate>>

\* the VNics a registration can arrive with
Vnics == {"vnic1", "vnic2"}

\* a HandleFunc that replaces the handler of a pattern
HandleFuncReplace(m, path, handler) == MapPut(m, path, handler)

\* ServeMux.HandleFunc: a pattern that has a handler keeps it (the call panics)
HandleFunc(m, path, handler) ==
    IF path \notin DOMAIN m THEN MapPut(m, path, handler) ELSE m

\* RegisterWebService on server rs; ServeMux.HandleFunc panics when the
\* pattern already has a handler
RegisterWebService(rs, ws, vnic) ==
    LET path == patternOf(rs, ws)
        handler == [authEnabled |-> rs.Authentication, serviceName |-> ws.ServiceName,
                    serviceArea |-> ws.ServiceArea, vnic |-> vnic]
        register == NotRegistered(path, endPoints)
    IN  /\ ~crashed
        /\ rs \in servers
        /\ authEnabled' = rs.Authentication
        /\ endPoints' = IF register THEN endPoints \cup {path} ELSE endPoints
        /\ mux' = IF register THEN HandleFunc(mux, path, handler) ELSE mux
        /\ crashed' = (register /\ path \in DOMAIN mux)
        /\ lastReg' = [rs |-> rs, ws |-> ws]
        /\ regRun' = IF lastReg = [rs |-> rs, ws |-> ws] THEN 2 ELSE 1
        /\ firstAbsent' = IF lastReg = [rs |-> rs, ws |-> ws] THEN firstAbsent ELSE register
        /\ UNCHANGED <<servers, notReg>>

\* Stop of a started server: the endPoints set is emptied, the mux is kept
Stop(rs) ==
    /\ ~crashed
    /\ rs \in servers
    /\ endPoints' = {}
    /\ lastReg' = NoReg
    /\ regRun' = 0
    /\ firstAbsent' = FALSE
    /\ UNCHANGED <<mux, authEnabled, servers, crashed, notReg>>

RegInit ==
    /\ mux = <<>>
    /\ endPoints = {}
    /\ authEnabled = FALSE
    /\ servers = {}
    /\ crashed = FALSE
    /\ lastReg = NoReg
    /\ regRun = 0
    /\ firstAbsent = FALSE

NextReg ==
    \/ \E config \in ServerConfigs : NewRestServer(config)
    \/ \E rs \in ServerConfigs, ws \in WebServices, vnic \in Vnics :
         RegisterWebService(rs, ws, vnic)
    \/ \E rs \in ServerConfigs : Stop(rs)

\* the patterns Activate registers
AuthPatterns ==
    { <<"/","a","u","t","h">>, <<"/","r","e","g","i","s","t","r","y">>,
      <<"/","t","f","a","S","e","t","u","p">>,
      <<"/","t","f","a","S","e","t","u","p","V","e","r","i","f","y">>,
      <<"/","t","f","a","V","e","r","i","f","y">>, <<"/","c","a","p","t","c","h","a">>,
      <<"/","r","e","g","i","s","t","e","r">> }

\* the VNet ports of the adjacent VNics an SLA can carry
VnetPorts == {1, 2}

AuthHandler ==
    [authEnabled |-> FALSE, serviceName |-> <<"W","e","b">>, serviceArea |-> 0,
     vnic |-> "vnic1"]

\* HandleFunc for every pattern of the set
HandleAll(m, patterns) ==
    [k \in DOMAIN m \cup patterns |-> IF k \in patterns THEN AuthHandler ELSE m[k]]

\* an Activate that registers the endpoints whenever the mux lacks them
MustRegisterOnMux(flag, m) == ~(AuthPatterns \subseteq DOMAIN m)

\* if !registeredAuth
MustRegister(flag, m) == ~flag

\* WebService.Activate with the adjacent VNics nics in the SLA, under mtx:
\* the endpoints are registered on the current http.DefaultServeMux when
\* registeredAuth is not set, and the ports not yet registered are taken
Activate(nics) ==
    LET register == MustRegister(registeredAuth, mux)
    IN  /\ ~crashed
        /\ servers # {}
        /\ registeredAuth' = TRUE
        /\ mux' = IF register /\ AuthPatterns \cap DOMAIN mux = {}
                  THEN HandleAll(mux, AuthPatterns) ELSE mux
        /\ crashed' = (register /\ AuthPatterns \cap DOMAIN mux # {})
        /\ registered' = registered \cup nics
        /\ activated' = TRUE
        /\ lastReg' = NoReg
        /\ regRun' = 0
        /\ firstAbsent' = FALSE
        /\ UNCHANGED <<endPoints, authEnabled, servers, notActivate>>

ActivateInit == registeredAuth = FALSE /\ registered = {} /\ activated = FALSE

NextActivate ==
    \/ \E config \in ServerConfigs : NewRestServer(config)
    \/ \E rs \in ServerConfigs, ws \in WebServices : RegisterWebService(rs, ws, "vnic1")
    \/ \E rs \in ServerConfigs : Stop(rs)
    \/ \E nics \in SUBSET VnetPorts : Activate(nics)

-----------------------------------------------------------------------------
(* The SNI reverse proxy: reverse_proxy.go *)

D_www_layer8vibe_dev == <<"w","w","w",".","l","a","y","e","r","8","v","i","b","e",".","d","e","v">>
D_layer8vibe_dev == <<"l","a","y","e","r","8","v","i","b","e",".","d","e","v">>
D_www_probler_dev == <<"w","w","w",".","p","r","o","b","l","e","r",".","d","e","v">>
D_probler_dev == <<"p","r","o","b","l","e","r",".","d","e","v">>
D_www_layer_8_dev == <<"w","w","w",".","l","a","y","e","r","-","8",".","d","e","v">>
D_layer_8_dev == <<"l","a","y","e","r","-","8",".","d","e","v">>

\* NewReverseProxy: the topology, built once
Listeners ==
  << [ListenPort |-> ":443",
      Routes |-> <<
         [Domains |-> <<D_www_layer8vibe_dev, D_layer8vibe_dev>>, TargetPort |-> "1443",
           CertFile |-> "layer8vibe.dev/domain.cert.pem", KeyFile |-> "layer8vibe.dev/private.key.pem"],
         [Domains |-> <<D_www_probler_dev, D_probler_dev>>, TargetPort |-> "2443",
           CertFile |-> "probler.dev/domain.cert.pem", KeyFile |-> "probler.dev/private.key.pem"],
         [Domains |-> <<D_www_layer_8_dev, D_layer_8_dev>>, TargetPort |-> "4443",
           CertFile |-> "layer-8.dev/domain.cert.pem", KeyFile |-> "layer-8.dev/private.key.pem"]>>],
     [ListenPort |-> ":14443",
      Routes |-> <<
         [Domains |-> <<D_www_probler_dev, D_probler_dev>>, TargetPort |-> "13443",
           CertFile |-> "probler.dev/domain.cert.pem", KeyFile |-> "probler.dev/private.key.pem"]>>],
     [ListenPort |-> ":9092",
      Routes |-> <<
         [Domains |-> <<D_www_probler_dev, D_probler_dev>>, TargetPort |-> "9093",
           CertFile |-> "probler.dev/domain.cert.pem", KeyFile |-> "probler.dev/private.key.pem"]>>],
     [ListenPort |-> ":9094",
      Routes |-> <<
         [Domains |-> <<D_www_probler_dev, D_probler_dev>>, TargetPort |-> "9095",
           CertFile |-> "probler.dev/domain.cert.pem", KeyFile |-> "probler.dev/private.key.pem"]>>] >>

NumListeners == Len(Listeners)

\* the upper-case spelling of a host name
ToUpper(s) ==
    [i \in 1..Len(s) |->
        IF \E k \in 1..Len(LowerChars) : LowerChars[k] = s[i]
        THEN UpperChars[CHOOSE k \in 1..Len(LowerChars) : LowerChars[k] = s[i]]
        ELSE s[i]]

\* the domains a listener is configured with
DomainsOf(listener) ==
    UNION { {listener.Routes[r].Domains[d] : d \in 1..Len(listener.Routes[r].Domains)} :
              r \in 1..Len(listener.Routes) }

\* the sequences of a sequence, one after the other
RECURSIVE Flatten(_)
Flatten(seqs) == IF seqs = <<>> THEN <<>> ELSE Head(seqs) \o Flatten(Tail(seqs))

\* a registration loop whose handler pattern is built from the route's first
\* domain at every turn
PatternsOfFirst(listener) ==
    Flatten([r \in 1..Len(listener.Routes) |->
                [d \in 1..Len(listener.Routes[r].Domains) |->
                    listener.Routes[r].Domains[1] \o <<"/">>]])

\* startListener: the patterns "domain/" handed to mux.HandleFunc, in the
\* order of the loops over the routes and their domains
PatternsOf(listener) ==
    Flatten([r \in 1..Len(listener.Routes) |->
                [d \in 1..Len(listener.Routes[r].Domains) |->
                    listener.Routes[r].Domains[d] \o <<"/">>]])

AllDomains == UNION {DomainsOf(Listeners[l]) : l \in 1..NumListeners}

UnknownHost == <<"e","v","i","l",".","i","o">>
Port443 == <<":","4","4","3">>

\* the server names handshakes present: configured ones in both spellings,
\* one never configured, and none
ServerNames ==
    {d : d \in AllDomains} \cup {ToUpper(d) : d \in AllDomains} \cup {UnknownHost, Empty}

\* the Host headers requests carry
HostHeaders ==
    ServerNames \cup {h \o Port443 : h \in ServerNames}

\* the routes of the listener one of whose domains is host
RoutesWith(host, listener) ==
    { r \in 1..Len(listener.Routes) :
        \E d \in 1..Len(listener.Routes[r].Domains) : listener.Routes[r].Domains[d] = host }

\* the nested loop over routes and domains: the first route with host, 0 when none
MatchRoute(host, listener) ==
    IF RoutesWith(host, listener) = {}
    THEN 0
    ELSE CHOOSE r \in RoutesWith(host, listener) : \A q \in RoutesWith(host, listener) : r <= q

CertOf(route) == [CertFile |-> route.CertFile, KeyFile |-> route.KeyFile]
NoCert == [CertFile |-> "", KeyFile |-> ""]

\* tls.LoadX509KeyPair of the route's files; loads: whether the files load
LoadX509KeyPair(route, loads) ==
    IF loads
    THEN [cert |-> CertOf(route), err |-> ""]
    ELSE [cert |-> NoCert, err |-> "load"]

\* certificate resolution that compares the server name as it was sent
getCertificateAsSent(serverName, listener, loads) ==
    IF MatchRoute(serverName, listener) # 0
    THEN LoadX509KeyPair(listener.Routes[MatchRoute(serverName, listener)], loads)
    ELSE IF Len(listener.Routes) > 0
    THEN LoadX509KeyPair(listener.Routes[1], loads)
    ELSE [cert |-> NoCert, err |-> "no certificate found"]

getCertificateForListener(serverName, listener, loads) ==
    LET host == ToLower(serverName)
    IN  IF MatchRoute(host, listener) # 0
        THEN LoadX509KeyPair(listener.Routes[MatchRoute(host, listener)], loads)
        ELSE IF Len(listener.Routes) > 0
        THEN LoadX509KeyPair(listener.Routes[1], loads)
        ELSE [cert |-> NoCert, err |-> "no certificate found"]

Forward(route, via) ==
    [forwarded |-> TRUE, port |-> route.TargetPort, status |-> 0, body |-> "", via |-> via]

\* a catch-all handler that falls back to the first route, as the certificate
\* resolution does
CatchAllFallback(r_Host, listener) == Forward(listener.Routes[1], "catch-all")

\* the "/" handler of the listener's mux
CatchAll(r_Host, listener) ==
    LET host == ToLower(r_Host)
        hostWithoutPort == SplitFirst(host, ":")
        hits == RoutesWith(hostWithoutPort, listener) \cup RoutesWith(host, listener)
    IN  IF hits # {}
        THEN Forward(listener.Routes[CHOOSE r \in hits : \A q \in hits : r <= q], "catch-all")
        ELSE [forwarded |-> FALSE, port |-> "", status |-> 502, body |-> "Unknown host",
              via |-> "catch-all"]

\* the listener's mux: a pattern "domain/" serves the requests whose Host,
\* port stripped, is that domain; every other request goes to "/"
ServeListener(r_Host, listener) ==
    IF MatchRoute(SplitFirst(r_Host, ":"), listener) # 0
    THEN Forward(listener.Routes[MatchRoute(SplitFirst(r_Host, ":"), listener)], "domain")
    ELSE CatchAll(r_Host, listener)

NoHandshake == [listener |-> 0, serverName |-> Empty, loads |-> FALSE,
                res |-> [cert |-> NoCert, err |-> ""]]
NoProxied == [listener |-> 0, host |-> Empty,
              res |-> [forwarded |-> FALSE, port |-> "", status |-> 0, body |-> "", via |-> ""]]

\* a TLS handshake on listener l asks for its certificate
Handshake ==
    /\ \E l \in 1..NumListeners, serverName \in ServerNames, loads \in BOOLEAN :
         hsOut' = [listener |-> l, serverName |-> serverName, loads |-> loads,
                   res |-> getCertificateForListener(serverName, Listeners[l], loads)]
    /\ UNCHANGED <<prOut, notProxy>>

\* an HTTP request arrives on listener l
ProxyRequest ==
    /\ \E l \in 1..NumListeners, host \in HostHeaders :
         prOut' = [listener |-> l, host |-> host, res |-> ServeListener(host, Listeners[l])]
    /\ UNCHANGED <<hsOut, notProxy>>

ProxyInit == hsOut = NoHandshake /\ prOut = NoProxied

NextProxy == Handshake \/ ProxyRequest

-----------------------------------------------------------------------------
(* ProxyConfig.Start and the listener tasks *)

\* the value received from the channel when several are buffered: the newest
RecvNewest(ch) == ch[Len(ch)]

\* <-errChan: the oldest buffered value
Recv(ch) == Head(ch)

\* go func(listener) {...}(listener), for the listeners in order
Launch ==
    /\ sPc = "launch"
    /\ sNext <= Len(lst)
    /\ lst' = [lst EXCEPT ![sNext] = "running"]
    /\ sNext' = sNext + 1
    /\ sPc' = IF sNext = Len(lst) THEN "wait" ELSE "launch"
    /\ UNCHANGED <<sRet, errChan, firstSent, notStart>>

\* a return that shuts the listeners still running down
StopListeners(l) ==
    [i \in DOMAIN l |-> IF l[i] \in {"running", "serving"} THEN "killed" ELSE l[i]]

\* what the return of Start does to the listener tasks: they are goroutines
\* of their own and Start holds no handle on their servers
KeepListeners(l) == l

\* a receive that never blocks (it yields nil when there is no value)
CanReceiveAlways(ch) == TRUE

\* <-errChan blocks until a value is in the channel
CanReceive(ch) == ch # <<>>

\* return <-errChan
Receive ==
    /\ sPc = "wait"
    /\ CanReceive(errChan)
    /\ sRet' = IF errChan = <<>> THEN 0 ELSE Recv(errChan)
    /\ errChan' = IF errChan = <<>> THEN <<>> ELSE Tail(errChan)
    /\ sPc' = "returned"
    /\ lst' = KeepListeners(lst)
    /\ UNCHANGED <<sNext, firstSent, notStart>>

\* Run: log.Fatal on the error Start returned ends the process, and with it
\* every listener task
RunFatal ==
    /\ sPc = "returned"
    /\ sPc' = "exited"
    /\ lst' = [i \in DOMAIN lst |-> "killed"]
    /\ UNCHANGED <<sNext, sRet, errChan, firstSent, notStart>>

\* listener i is bound and serves
Listen(i) ==
    /\ lst[i] = "running"
    /\ lst' = [lst EXCEPT ![i] = "serving"]
    /\ UNCHANGED <<sPc, sNext, sRet, errChan, firstSent, notStart>>

\* startListener of listener i returns its error (the error of listener i is i)
Fail(i) ==
    /\ lst[i] \in {"running", "serving"}
    /\ lst' = [lst EXCEPT ![i] = "failed"]
    /\ UNCHANGED <<sPc, sNext, sRet, errChan, firstSent, notStart>>

\* a channel one slot short of the listener count
ChanCapShort(listeners) == Len(listeners) - 1

\* make(chan error, len(pc.Listeners))
ChanCap(listeners) == Len(listeners)

\* errChan <- err: the send completes when the buffer has room
Send(i) ==
    /\ i \in DOMAIN lst
    /\ lst[i] = "failed"
    /\ Len(errChan) < ChanCap(lst)
    /\ errChan' = Append(errChan, i)
    /\ firstSent' = IF firstSent = 0 THEN i ELSE firstSent
    /\ lst' = [lst EXCEPT ![i] = "ended"]
    /\ UNCHANGED <<sPc, sNext, sRet, notStart>>

StartInit ==
    /\ sPc = "launch"
    /\ sNext = 1
    /\ sRet = 0
    /\ lst = [i \in 1..NumListeners |-> "none"]
    /\ errChan = <<>>
    /\ firstSent = 0

\* Start on any ProxyConfig: no listener, one listener, or the listeners of
\* NewReverseProxy; with no listener the loop is over at once
StartInitAny ==
    /\ \E n \in {0, 1, NumListeners} : lst = [i \in 1..n |-> "none"]
    /\ sPc = IF lst = <<>> THEN "wait" ELSE "launch"
    /\ sNext = 1
    /\ sRet = 0
    /\ errChan = <<>>
    /\ firstSent = 0

NextStart ==
    \/ Launch
    \/ Receive
    \/ RunFatal
    \/ \E i \in DOMAIN lst : Listen(i)
    \/ \E i \in DOMAIN lst : Fail(i)
    \/ \E i \in DOMAIN lst : Send(i)

\* a server that gives up when its certificate callback fails
ListenerAfterFatal(l, i, res) == IF res.err # "" THEN [l EXCEPT ![i] = "failed"] ELSE l

\* what the answer of the GetCertificate callback does to the listener tasks:
\* the error goes to the TLS handshake of that connection and nowhere else
ListenerAfter(l, i, res) == l

\* a TLS handshake on a listener that serves: the callback resolves the
\* certificate from the files as they are now
ServeHandshake ==
    /\ \E i \in 1..NumListeners, serverName \in ServerNames, loads \in BOOLEAN :
         LET res == getCertificateForListener(serverName, Listeners[i], loads)
         IN  /\ lst[i] = "serving"
             /\ hsOut' = [listener |-> i, serverName |-> serverName, loads |-> loads,
                          res |-> res]
             /\ lst' = ListenerAfter(lst, i, res)
    /\ UNCHANGED <<prOut, sPc, sNext, sRet, errChan, firstSent, tokVars, gatewayVars,
                   regVars, clientVars, taskVars, activateVars>>

NextServe == NextStart \/ ServeHandshake

-----------------------------------------------------------------------------
(* The REST and GraphQL clients: RestClient.go, GraphQLClient.go *)

\* strings.HasSuffix
HasSuffix(s, suffix) ==
    Len(s) >= Len(suffix) /\ SubSeq(s, Len(s) - Len(suffix) + 1, Len(s)) = suffix

\* strconv.Atoi of a string of decimal digits; -1 stands for its error
RECURSIVE Atoi(_)
Atoi(s) ==
    IF s = Empty \/ \E i \in 1..Len(s) : IndexOf(Digits, s[i]) = 0
    THEN -1
    ELSE IF Len(s) = 1
    THEN IndexOf(Digits, s[1]) - 1
    ELSE 10 * Atoi(SubSeq(s, 1, Len(s) - 1)) + (IndexOf(Digits, s[Len(s)]) - 1)

AuthPathText == <<"/","a","u","t","h">>
AuthEnd == <<"a","u","t","h">>
TestsEnd == <<"0","/","T","e","s","t","s">>
GraphQLEnd == <<"/","g","r","a","p","h","q","l">>

\* the end argument of GET, POST, PUT, PATCH, DELETE
Ends == {AuthPathText, AuthEnd, Empty, TestsEnd}

NoAuthInfo == [nil |-> TRUE, NeedAuth |-> FALSE, AuthPath |-> Empty]

AuthInfos == {NoAuthInfo} \cup [nil : {FALSE}, NeedAuth : BOOLEAN, AuthPath : {AuthPathText}]

\* RestClientConfig / GraphQLClientConfig, the fields the calls read
ClientConfigs ==
    [TokenRequired : BOOLEAN, Https : BOOLEAN, AuthInfo : AuthInfos, Token : {Empty, TokC}]

NoClient ==
    [made |-> FALSE, TokenRequired |-> FALSE, Https |-> FALSE,
     AuthInfo |-> NoAuthInfo, Token |-> Empty]

ErrTimeout == <<"i","/","o"," ","t","i","m","e","o","u","t">>
ErrReset == <<"r","e","a","d",":"," ","c","o","n","n","e","c","t","i","o","n"," ","r","e","s","e","t"," ","b","y"," ","p","e","e","r">>
ErrTimedOut == <<"d","i","a","l",":"," ","c","o","n","n","e","c","t","i","o","n"," ","t","i","m","e","d"," ","o","u","t">>
ErrRefused == <<"c","o","n","n","e","c","t","i","o","n"," ","r","e","f","u","s","e","d">>
ErrEOF == <<"E","O","F">>

TransportErrors == {ErrTimeout, ErrReset, ErrTimedOut, ErrRefused, ErrEOF}

Status200 == <<"2","0","0"," ","O","K">>
Status299 == <<"2","9","9"," ","Z">>
Status199 == <<"1","9","9"," ","E">>
Status300 == <<"3","0","0"," ","M">>
Status401 == <<"4","0","1"," ","U","n","a","u","t","h","o","r","i","z","e","d">>
Status502 == <<"5","0","2"," ","B","a","d"," ","G","a","t","e","w","a","y">>

Statuses == {Status200, Status299, Status199, Status300, Status401, Status502}

\* what httpClient.Do answers to one request: a transport error, or a response
\* with a status line, a body that unmarshals or not, and the token field of
\* the message it carries
Outcomes ==
    [kind : {"error"}, text : TransportErrors, status : {Empty},
     body : {"none"}, token : {Empty}]
    \cup [kind : {"response"}, text : {Empty}, status : Statuses,
          body : {"json", "garbage"}, token : {Empty, TokA, TokB}]

NoOutcome == [kind |-> "none", text |-> Empty, status |-> Empty, body |-> "none", token |-> Empty]

\* is200: the status code before the first space is in 200..299
\* (ok: the answer, err: Atoi failed)
is200(status) ==
    LET stat == Atoi(SubSeq(status, 1, IndexOf(status, " ") - 1))
    IN  [ok |-> stat >= 200 /\ stat <= 299, err |-> stat = -1]

ResetText == <<"c","o","n","n","e","c","t","i","o","n"," ","r","e","s","e","t"," ","b","y"," ","p","e","e","r">>
TimeoutText == <<"t","i","m","e","o","u","t">>
TimedOutText == <<"c","o","n","n","e","c","t","i","o","n"," ","t","i","m","e","d"," ","o","u","t">>

\* a variant that takes every transport error for a transient one
isTimeoutAlways(err) == TRUE

\* isTimeout: the test only; the sleep it makes is in DoAttempt
isTimeout(err) ==
    Contains(err, ResetText) \/ Contains(err, TimeoutText) \/ Contains(err, TimedOutText)

\* the retry test of Do and Execute
MaxTryCount == 5
\* time.Sleep(time.Second * 5) in isTimeout
RetryWait == 5
\* the tryCount Auth passes to Do and Execute
AuthTryCount == 5

\* a variant that matches the end against the auth path exactly
isAuthPathExact(c, end) == ~c.AuthInfo.nil /\ c.AuthInfo.AuthPath = end

isAuthPath(c, end) == ~c.AuthInfo.nil /\ HasSuffix(c.AuthInfo.AuthPath, end)

\* request panics: "No token with secure connection!"
RequestPanics(c, end) ==
    c.TokenRequired /\ c.Token = Empty /\ c.Https /\ ~isAuthPath(c, end)

\* the Authorization header request sets (Empty: none)
AuthorizationOf(c) ==
    IF c.TokenRequired /\ c.Token # Empty THEN BearerWord \o Space \o c.Token ELSE Empty

Ops == {"GET", "POST", "PUT", "PATCH", "DELETE", "Query", "Mutate", "Auth"}

ResponseTypes == {"", "AuthToken", "Unknown"}

NoSent == [made |-> FALSE, end |-> Empty, authorization |-> Empty]
NoRet == [msg |-> FALSE, err |-> "", token |-> Empty]

NoCallState ==
    [pc |-> "idle", op |-> "", end |-> Empty, responseType |-> "", tryCount |-> 0,
     attempts |-> 0, waited |-> 0, last |-> NoOutcome, sent |-> NoSent, ret |-> NoRet]

\* what Do returns for a response: (message or nil, error or none)
DoReturn(responseType, o) ==
    IF is200(o.status).err THEN [msg |-> FALSE, err |-> "atoi", token |-> Empty]
    ELSE IF ~is200(o.status).ok THEN [msg |-> FALSE, err |-> "status", token |-> Empty]
    ELSE IF responseType = "" THEN [msg |-> FALSE, err |-> "", token |-> Empty]
    ELSE IF responseType = "Unknown" THEN [msg |-> FALSE, err |-> "registry", token |-> Empty]
    ELSE IF o.body = "garbage" THEN [msg |-> TRUE, err |-> "unmarshal", token |-> Empty]
    ELSE [msg |-> TRUE, err |-> "", token |-> o.token]

\* a variant of the retry test with a strict comparison
MayRetryStrict(tryCount) == tryCount < MaxTryCount

MayRetry(tryCount) == tryCount <= MaxTryCount

\* one activation of Do (Execute): the request is sent, and either the call
\* goes round again with tryCount+1 or it returns
DoAttempt(c, k, o) ==
    LET sent == [made |-> TRUE, end |-> k.end, authorization |-> AuthorizationOf(c)]
        base == [k EXCEPT !.attempts = @ + 1, !.last = o, !.sent = sent]
    IN  IF o.kind = "error"
        THEN IF isTimeout(o.text)
             THEN IF MayRetry(k.tryCount)
                  THEN [base EXCEPT !.waited = @ + RetryWait, !.tryCount = @ + 1]
                  ELSE [base EXCEPT !.waited = @ + RetryWait, !.pc = "returned",
                                    !.ret = [msg |-> FALSE, err |-> "transport", token |-> Empty]]
             ELSE [base EXCEPT !.pc = "returned",
                               !.ret = [msg |-> FALSE, err |-> "transport", token |-> Empty]]
        ELSE [base EXCEPT !.pc = "returned", !.ret = DoReturn(k.responseType, o)]

\* NewRestClient / NewGraphQLClient
NewRestClient ==
    /\ ~rc.made
    /\ \E config \in ClientConfigs :
         rc' = [made |-> TRUE, TokenRequired |-> config.TokenRequired,
                Https |-> config.Https, AuthInfo |-> config.AuthInfo,
                Token |-> config.Token]
    /\ UNCHANGED <<cl, notClient>>

\* GET, POST, PUT, PATCH, DELETE, Query, Mutate are entered with tryCount 1
ClientCall ==
    /\ rc.made /\ cl.pc = "idle"
    /\ \E op \in Ops \ {"Auth"}, end \in Ends, responseType \in ResponseTypes :
         cl' = [NoCallState EXCEPT !.pc = "running", !.op = op,
                   !.end = IF op \in {"Query", "Mutate"} THEN GraphQLEnd ELSE end,
                   !.responseType = responseType, !.tryCount = 1]
    /\ UNCHANGED <<rc, notClient>>

\* Auth: nothing to do without AuthInfo or NeedAuth, else Do on the auth path
ClientAuth ==
    /\ rc.made /\ cl.pc = "idle"
    /\ cl' = IF rc.AuthInfo.nil \/ ~rc.AuthInfo.NeedAuth
             THEN [NoCallState EXCEPT !.pc = "returned", !.op = "Auth"]
             ELSE [NoCallState EXCEPT !.pc = "running", !.op = "Auth",
                      !.end = rc.AuthInfo.AuthPath, !.responseType = "AuthToken",
                      !.tryCount = AuthTryCount]
    /\ UNCHANGED <<rc, notClient>>

\* one activation of Do; when it is Auth's and it returns without error,
\* Auth stores the token field of the message
ClientAttempt ==
    /\ cl.pc = "running"
    /\ IF RequestPanics(rc, cl.end)
       THEN /\ cl' = [cl EXCEPT !.pc = "panicked"]
            /\ UNCHANGED rc
       ELSE \E o \in Outcomes :
              /\ cl' = DoAttempt(rc, cl, o)
              /\ rc' = IF cl'.op = "Auth" /\ cl'.pc = "returned" /\ cl'.ret.err = ""
                       THEN [rc EXCEPT !.Token = cl'.ret.token]
                       ELSE rc
    /\ UNCHANGED notClient

\* the caller goes on to its next call
ClientNext ==
    /\ cl.pc = "returned"
    /\ cl' = NoCallState
    /\ UNCHANGED <<rc, notClient>>

ClientInit == rc = NoClient /\ cl = NoCallState

NextClient == NewRestClient \/ ClientCall \/ ClientAuth \/ ClientAttempt \/ ClientNext

-----------------------------------------------------------------------------
(* Concurrent handlers and the two locks: mtx (WebService.go) and the lock *)
(* inside the endPoints SyncMap.  A handler's run is cut at every lock     *)
(* operation, every access and every call to a provider or the overlay.    *)

NumTasks == 2
Tasks == 1..NumTasks

\* the servers and services the concurrent registrations use
TaskRegs == [rs : [Prefix : {<<"/">>}, Authentication : {TRUE}], ws : WebServices]

NoTask ==
    [kind |-> "", pc |-> "idle", bearer |-> Empty, aToken |-> Empty, ok |-> FALSE,
     adj |-> 0, reg |-> NoReg]

\* a lock that never blocks
TryLockAlways(holders) == TRUE

\* sync.Mutex.Lock returns only while nobody holds the lock
TryLock(holders) == holders = {}

\* the handler is at the point of reading or writing the structure
AtAccess(t, structure) ==
    IF structure = "adjacentTokens"
    THEN t.pc = "locked"
    ELSE t.pc \in {"epGetting", "epPutting", "epCleaning"}

\* the handler is inside a call to a security provider or to the overlay
AtCall(t) == t.pc \in {"validate", "revalidate", "overlay", "authenticate", "adjacent"}

\* a request, a login, a registration or a Stop begins on a free goroutine
TaskStart(p) ==
    /\ task[p].pc = "idle"
    /\ \/ /\ task' = [task EXCEPT ![p] = [NoTask EXCEPT !.kind = "dispatch",
                                             !.pc = "validate", !.bearer = TokA]]
          /\ UNCHANGED authEnabled
       \/ /\ task' = [task EXCEPT ![p] = [NoTask EXCEPT !.kind = "login",
                                             !.pc = "authenticate"]]
          /\ UNCHANGED authEnabled
       \/ \E reg \in TaskRegs :
            /\ task' = [task EXCEPT ![p] = [NoTask EXCEPT !.kind = "register",
                                               !.pc = "epGet", !.reg = reg]]
            /\ authEnabled' = reg.rs.Authentication
       \/ /\ task' = [task EXCEPT ![p] = [NoTask EXCEPT !.kind = "stop", !.pc = "epClean"]]
          /\ UNCHANGED authEnabled
    /\ UNCHANGED <<held, tokVars, gatewayVars, mux, endPoints, servers, crashed,
                   lastReg, regRun, firstAbsent, proxyVars, startVars, clientVars,
                   activateVars>>

\* a handler that has returned has no locals left
Returned(p, f) ==
    [f EXCEPT ![p] = IF f[p].pc = "done" THEN [NoTask EXCEPT !.kind = f[p].kind, !.pc = "done"]
                     ELSE f[p]]

\* serveHttp: ValidateToken(bearer)
TaskValidate(p) ==
    /\ task[p].pc = "validate"
    /\ \E v \in Verdicts :
         task' = Returned(p, [task EXCEPT ![p].ok = v.ok,
                              ![p].pc = IF v.ok THEN "overlay"
                                        ELSE IF IsTFASentinel(v.id) THEN "done"
                                        ELSE "lock"])
    /\ UNCHANGED <<held, notTask>>

\* mtx.Lock()
MtxLock(p) ==
    /\ task[p].pc = "lock"
    /\ TryLock(held.mtx)
    /\ held' = [held EXCEPT !.mtx = @ \cup {p}]
    /\ task' = Returned(p, [task EXCEPT ![p].pc = "locked"])
    /\ UNCHANGED notTask

\* serveHttp: aToken, ok = adjacentTokens[bearer]
MapRead(p) ==
    /\ task[p].pc = "locked" /\ task[p].kind = "dispatch"
    /\ task' = Returned(p, [task EXCEPT ![p].aToken = MapGet(adjacentTokens, FedKey(task[p].bearer)).val,
                            ![p].ok = MapGet(adjacentTokens, FedKey(task[p].bearer)).ok,
                            ![p].pc = "unlock"])
    /\ UNCHANGED <<held, notTask>>

\* Auth: adjacentTokens[token] = aToken
MapWrite(p) ==
    /\ task[p].pc = "locked" /\ task[p].kind = "login"
    /\ adjacentTokens' = MapPut(adjacentTokens, task[p].bearer, task[p].aToken)
    /\ task' = Returned(p, [task EXCEPT ![p].pc = "unlock"])
    /\ UNCHANGED <<held, tokVars, dispVars, loginVars, regVars, proxyVars, startVars,
                   clientVars, activateVars>>

\* mtx.Unlock(), and where the handler goes from there
MtxUnlock(p) ==
    /\ task[p].pc = "unlock"
    /\ held' = [held EXCEPT !.mtx = @ \ {p}]
    /\ task' = Returned(p, [task EXCEPT
         ![p].pc = IF task[p].kind = "dispatch"
                   THEN (IF task[p].aToken # Empty THEN "revalidate"
                         ELSE IF task[p].ok THEN "overlay" ELSE "done")
                   ELSE (IF task[p].adj < NumAdjacent THEN "adjacent" ELSE "respond"),
         ![p].adj = IF task[p].kind = "login" THEN @ + 1 ELSE @])
    /\ UNCHANGED notTask

\* serveHttp: ValidateToken(aToken)
TaskRevalidate(p) ==
    /\ task[p].pc = "revalidate"
    /\ \E v \in Verdicts :
         task' = Returned(p, [task EXCEPT ![p].ok = v.ok, ![p].pc = IF v.ok THEN "overlay" ELSE "done"])
    /\ UNCHANGED <<held, notTask>>

\* serveHttp: the overlay request
TaskOverlay(p) ==
    /\ task[p].pc = "overlay"
    /\ task' = Returned(p, [task EXCEPT ![p].pc = "done"])
    /\ UNCHANGED <<held, notTask>>

\* Auth: Authenticate on the primary provider
TaskAuthenticate(p) ==
    /\ task[p].pc = "authenticate"
    /\ \E answer \in PrimaryAnswers :
         task' = Returned(p, [task EXCEPT ![p].bearer = answer.token, ![p].adj = 1,
                              ![p].pc = IF answer.err THEN "done" ELSE "adjacent"])
    /\ UNCHANGED <<held, notTask>>

\* a login that answers without storing the adjacent token
AfterSuccessRespond(t) == "respond"

\* Auth: if aErr == nil the login goes on to mtx.Lock()
AfterSuccess(t) == "lock"

\* Auth: Authenticate on the next adjacent network; ok records that an
\* adjacent network has accepted this login
TaskAdjacent(p) ==
    /\ task[p].pc = "adjacent"
    /\ \E answer \in AdjacentAnswers :
         task' = Returned(p, [task EXCEPT
            ![p].aToken = answer.token,
            ![p].ok = @ \/ ~answer.err,
            ![p].pc = IF ~answer.err THEN AfterSuccess(task[p])
                      ELSE IF task[p].adj < NumAdjacent THEN "adjacent" ELSE "respond",
            ![p].adj = IF answer.err THEN @ + 1 ELSE @])
    /\ UNCHANGED <<held, notTask>>

\* Auth: the cookie, WriteHeader(200) and the body, after the loop
TaskRespond(p) ==
    /\ task[p].pc = "respond"
    /\ task' = Returned(p, [task EXCEPT ![p].pc = "done"])
    /\ UNCHANGED <<held, notTask>>

\* the SyncMap takes its lock at the start of Get, Put and Clean
EpLock(p) ==
    /\ task[p].pc \in {"epGet", "epPut", "epClean"}
    /\ TryLock(held.endPoints)
    /\ held' = [held EXCEPT !.endPoints = @ \cup {p}]
    /\ task' = Returned(p, [task EXCEPT ![p].pc = IF task[p].pc = "epGet" THEN "epGetting"
                                      ELSE IF task[p].pc = "epPut" THEN "epPutting"
                                      ELSE "epCleaning"])
    /\ UNCHANGED notTask

\* the access of Get, Put or Clean, and the release of the SyncMap's lock
EpAccess(p) ==
    LET path == patternOf(task[p].reg.rs, task[p].reg.ws)
    IN  /\ task[p].pc \in {"epGetting", "epPutting", "epCleaning"}
        /\ endPoints' = IF task[p].pc = "epPutting" THEN endPoints \cup {path}
                        ELSE IF task[p].pc = "epCleaning" THEN {}
                        ELSE endPoints
        /\ held' = [held EXCEPT !.endPoints = @ \ {p}]
        /\ task' = Returned(p, [task EXCEPT
              ![p].ok = IF task[p].pc = "epGetting" THEN ~NotRegistered(path, endPoints) ELSE @,
              ![p].pc = IF task[p].pc = "epGetting"
                        THEN (IF NotRegistered(path, endPoints) THEN "epPut" ELSE "done")
                        ELSE IF task[p].pc = "epPutting" THEN "handle"
                        ELSE "done"])
        /\ UNCHANGED <<tokVars, gatewayVars, mux, authEnabled, servers, crashed,
                       lastReg, regRun, firstAbsent, proxyVars, startVars, clientVars,
                       activateVars>>

\* http.DefaultServeMux.HandleFunc: panics when the pattern has a handler
TaskHandleFunc(p) ==
    LET path == patternOf(task[p].reg.rs, task[p].reg.ws)
        handler == [authEnabled |-> task[p].reg.rs.Authentication,
                    serviceName |-> task[p].reg.ws.ServiceName,
                    serviceArea |-> task[p].reg.ws.ServiceArea, vnic |-> "vnic1"]
    IN  /\ task[p].pc = "handle"
        /\ mux' = IF path \notin DOMAIN mux THEN MapPut(mux, path, handler) ELSE mux
        /\ crashed' = (path \in DOMAIN mux)
        /\ task' = Returned(p, [task EXCEPT ![p].pc = "done"])
        /\ UNCHANGED <<held, tokVars, gatewayVars, endPoints, authEnabled, servers,
                       lastReg, regRun, firstAbsent, proxyVars, startVars, clientVars,
                       activateVars>>

\* the handler returns
TaskEnd(p) ==
    /\ task[p].pc = "done"
    /\ task' = Returned(p, [task EXCEPT ![p] = NoTask])
    /\ UNCHANGED <<held, notTask>>

TaskInit ==
    /\ task = [p \in Tasks |-> NoTask]
    /\ held = [mtx |-> {}, endPoints |-> {}]

\* a panic ends the process and every goroutine in it
NextTask ==
    /\ ~crashed
    /\ \E p \in Tasks :
         \/ TaskStart(p) \/ TaskValidate(p) \/ MtxLock(p) \/ MapRead(p) \/ MapWrite(p)
         \/ MtxUnlock(p) \/ TaskRevalidate(p) \/ TaskOverlay(p) \/ TaskAuthenticate(p)
         \/ TaskAdjacent(p) \/ TaskRespond(p) \/ EpLock(p) \/ EpAccess(p) \/ TaskHandleFunc(p) \/ TaskEnd(p)

-----------------------------------------------------------------------------
(* Specifications *)

vars == <<tokVars, gatewayVars, regVars, proxyVars, startVars, clientVars, taskVars,
          activateVars>>

Init == GatewayInit /\ TokIdle /\ RegInit /\ ProxyInit /\ StartInit /\ ClientInit /\ TaskInit /\ ActivateInit

Next ==
    \/ DispatchArrive
    \/ ServeHttp
    \/ DispatchFinish
    \/ LoginArrive
    \/ Auth
    \/ LoginFinish

\* the gateway's request handlers
Spec == Init /\ [][Next]_vars

NextToken == ExtractTokenCall \/ ValidateBearerTokenCall

\* extractToken on every request of TokenRequests
InitToken == TokInit /\ GatewayInit /\ RegInit /\ ProxyInit /\ StartInit /\ ClientInit /\ TaskInit /\ ActivateInit

SpecToken == InitToken /\ [][NextToken]_vars

NextHandle == HandleArrive \/ HandleHttp \/ DispatchFinish

\* the dispatcher over every verb, body, routing configuration and overlay answer
SpecHandle == Init /\ [][NextHandle]_vars

\* the life of RestServers in one process
SpecReg == Init /\ [][NextReg]_vars

\* handshakes and requests on the listeners of the topology
SpecProxy == Init /\ [][NextProxy]_vars

\* Start and its listener tasks; the Go scheduler lets Start run on
SpecStart == Init /\ [][NextStart]_vars /\ WF_vars(Launch) /\ WF_vars(Receive)

\* the state before Start, for any number of listeners
InitAny ==
    /\ GatewayInit /\ TokIdle /\ RegInit /\ ProxyInit /\ StartInitAny /\ ClientInit
    /\ TaskInit /\ ActivateInit

\* a goroutine that can send does send
SpecStartAny ==
    /\ InitAny /\ [][NextStart]_vars /\ WF_vars(Launch) /\ WF_vars(Receive)
    /\ \A i \in 1..NumListeners : WF_vars(Send(i))

SpecActivate == Init /\ [][NextActivate]_vars

SpecServe == Init /\ [][NextServe]_vars

SpecTask == Init /\ [][NextTask]_vars

\* a call in progress is always continued: Do and Execute run to their return
SpecClient == Init /\ [][NextClient]_vars /\ WF_vars(ClientAttempt)

-----------------------------------------------------------------------------
(* Claims about the dispatcher's authentication *)

TFASentinels == {SetupTFA, NeedTFA}

\* an authenticating handler has served a request that presented a credential
ServedWithAuth == dPc = "done" /\ dReq.handler.authEnabled

\* direct validation failed without naming a TFA state
DirectFailedPlain ==
    /\ ServedWithAuth
    /\ dReq.header # Empty
    /\ ~dReq.verdict.ok
    /\ dReq.verdict.id \notin TFASentinels

\* the request got past authentication: body handling was reached
WentOn == dOut.status # 401 /\ (dOut.call.made \/ dOut.status = 400)

BearerTokenOf(h) ==
    IF Len(SplitN2(h, " ")) = 2 /\ ToLower(SplitN2(h, " ")[1]) = bearerWord
    THEN SplitN2(h, " ")[2]
    ELSE Empty

\* C2: extractToken gives the Authorization Bearer header precedence over the
\* bToken cookie and the token query parameter: whenever the request carries a
\* Bearer header with a token, that token is returned; with cookie A, header
\* "Bearer B" and query C at once it returns B.
C2_HeaderCookieQuery ==
    (tokPc = "done" /\ BearerTokenOf(tokReq.header) # Empty) =>
        tokOut = BearerTokenOf(tokReq.header)

\* C3: with authentication enabled, a request that carries a token the provider
\* accepts only in the cookie or only in the query parameter, and no
\* Authorization header, is not rejected.
C3_AnySourceAuthorizes ==
    ( /\ ServedWithAuth
      /\ dReq.header = Empty
      /\ (dReq.cookie # Empty \/ dReq.query # Empty)
      /\ dReq.verdict.ok ) => dOut.status # 401

\* direct validation answered not-ok with one of the two TFA sentinels
DirectSentinel ==
    /\ ServedWithAuth
    /\ dReq.header # Empty
    /\ ~dReq.verdict.ok
    /\ dReq.verdict.id \in TFASentinels

\* C4: when direct validation is not ok and its identity string is one of the
\* two TFA sentinels, the answer is 401 with that sentinel as the body, the
\* Federation Map is not consulted and no overlay call is made; every other
\* authentication rejection is a 401 with an empty body.
C4_TFASentinel ==
    /\ DirectSentinel =>
           /\ dOut.status = 401
           /\ dOut.body = dReq.verdict.id
           /\ ~dOut.fedRead
           /\ ~dOut.call.made
    /\ (dPc = "done" /\ dOut.status = 401 /\ ~DirectSentinel) => dOut.body = ""

\* a request was answered with the verification sentinel
C4_Witness == DirectSentinel /\ dOut.status = 401 /\ dOut.body = NeedTFA

\* some ValidateToken call made for the request returned ok
SomeValidationOk ==
    \E i \in 1..Len(dOut.validated) : dOut.validated[i].verdict.ok

\* C5: with authentication enabled, every request that carries no token, or
\* whose token no validation (direct or federated) accepts, is answered 401;
\* and for no request answered 401 is the body read or an overlay call made.
C5_Unauthorized ==
    /\ (ServedWithAuth /\ (dReq.header = Empty \/ ~SomeValidationOk)) => dOut.status = 401
    /\ (dPc = "done" /\ dOut.status = 401) =>
           (~dOut.bodyRead /\ ~dOut.parsed /\ ~dOut.call.made)

\* C6: the identity handed to the overlay call is the identity string returned
\* by the validation (direct or federated) that succeeded for the request.
C6_IdentityFromValidation ==
    (ServedWithAuth /\ dOut.call.made /\ dOut.call.withId) =>
        \E i \in 1..Len(dOut.validated) :
            /\ dOut.validated[i].verdict.ok
            /\ dOut.call.identity = dOut.validated[i].verdict.id

-----------------------------------------------------------------------------
(* Claims about dispatch: routing, actions, bodies, responses *)

\* the request was served and reached dispatch
Dispatched == dPc = "done" /\ dOut.parsed

\* the call C16 expects from the Target and RoutingMethod resolution
RoutedAsConfigured ==
    /\ dOut.call.made
    /\ dOut.routing.Target # "" =>
           (dOut.call.kind = "Request" /\ dOut.call.dest = dOut.routing.Target)
    /\ dOut.routing.Target = "" =>
           /\ dOut.routing.Method = "M_Leader" => dOut.call.kind = "LeaderRequest"
           /\ dOut.routing.Method = "M_Local" => dOut.call.kind = "LocalRequest"
           /\ dOut.routing.Method = "M_Proximity" => dOut.call.kind = "ProximityRequest"
           /\ dOut.call.kind \in {"LeaderRequest", "LocalRequest", "ProximityRequest"}

\* C16 as stated: every request that reaches dispatch issues one overlay call;
\* with a Target configured it is the direct request to that Target whatever
\* the RoutingMethod, otherwise the Leader, Local or Proximity request the
\* RoutingMethod selects.
C16_RoutingAlways == Dispatched => RoutedAsConfigured

\* C16, amended: the same for every service but the health service, whose
\* requests are always the direct request to the vnet's RemoteUuid.
C16_RoutingResolution ==
    Dispatched =>
        /\ dReq.handler.serviceName # HealthService => RoutedAsConfigured
        /\ dReq.handler.serviceName = HealthService =>
               (dOut.call.made /\ dOut.call.kind = "Request" /\ dOut.call.dest = RemoteUuid)

\* a request of the echo service went to the configured Target although the
\* RoutingMethod was M_Local
C16_Witness ==
    /\ Dispatched
    /\ dReq.handler.serviceName = EchoService
    /\ dOut.routing.Target = "target-uuid"
    /\ dOut.routing.Method = "M_Local"
    /\ dOut.call.kind = "Request"
    /\ dOut.call.dest = "target-uuid"

\* the five verbs and the actions named after them
VerbAction ==
    (MethodPost :> "POST") @@ (MethodGet :> "GET") @@ (MethodDelete :> "DELETE")
    @@ (MethodPut :> "PUT") @@ (MethodPatch :> "PATCH")

MapReduceAction ==
    ("POST" :> "MapR_POST") @@ ("GET" :> "MapR_GET") @@ ("DELETE" :> "MapR_DELETE")
    @@ ("PUT" :> "MapR_PUT") @@ ("PATCH" :> "MapR_PATCH")

\* the text holds the letters m-a-p-r-e-d-u-c-e in a row, in either case
MentionsMapReduce(text) ==
    \E i \in 1..Len(text) :
        /\ i + Len(MapReduceWord) - 1 <= Len(text)
        /\ \A k \in 1..Len(MapReduceWord) :
               text[i + k - 1] \in {MapReduceWord[k], ToUpper(MapReduceWord)[k]}

\* C17: each of POST, GET, DELETE, PUT, PATCH is mapped to the action of the
\* same name, and to its MapReduce variant exactly when the resolved body is a
\* generic query whose text contains mapreduce in any case; a body that is no
\* query never gets the MapReduce variant.
C17_ActionMapping ==
    (Dispatched /\ dReq.method \in DOMAIN VerbAction) =>
        /\ dOut.protos.action = VerbAction[dReq.method]
        /\ dOut.call.action =
               IF dOut.protos.body.type = "L8Query" /\ MentionsMapReduce(dOut.protos.body.text)
               THEN MapReduceAction[VerbAction[dReq.method]]
               ELSE VerbAction[dReq.method]

\* a DELETE whose body is a query that mentions MAPREDUCE in upper case
C17_Witness ==
    /\ Dispatched
    /\ dReq.method = MethodDelete
    /\ dOut.protos.body.type = "L8Query"
    /\ dOut.protos.body.text # ToLower(dOut.protos.body.text)
    /\ dOut.call.action = "MapR_DELETE"

\* the request's verb is GET, in whatever case it was sent
IsGet == ToLower(dReq.method) = ToLower(MethodGet)

OverlaySucceeded == Dispatched /\ dOut.result.res # "error"

\* C19: once the overlay call has succeeded the status is 200; when flattening
\* the result fails the body is exactly {}, and so it is when serializing the
\* flattened result fails.
C19_PostSuccessDegradation ==
    OverlaySucceeded =>
        /\ dOut.status = 200
        /\ dOut.result.res \in {"listErr", "marshalErr"} => dOut.body = "{}"

\* C20: an unreadable, unparseable or untyped body is answered 400 and no
\* overlay call is made; an overlay error is answered 400 with the upstream
\* error text; in neither case is the status 200.
C20_RequestErrors ==
    dPc = "done" =>
        /\ (dOut.readErr \/ dOut.protos.err) =>
               (dOut.status = 400 /\ dOut.body # "" /\ ~dOut.call.made)
        /\ (dOut.call.made /\ dOut.result.res = "error") =>
               /\ dOut.status = 400
               /\ dOut.result.text # ""
               /\ dOut.body = "Error from single request:" \o dOut.result.text

\* a body Protos could not resolve was answered 400 without an overlay call
C20_Witness ==
    /\ dPc = "done"
    /\ dOut.protos.err
    /\ dOut.status = 400
    /\ dReq.data = "{msg}"
    /\ ~dOut.call.made

-----------------------------------------------------------------------------
(* Claims about registration *)

-----------------------------------------------------------------------------
(* Claims about the reverse proxy *)

Handshaken == hsOut.listener # 0

\* the route of the handshake's listener that lists the server name, compared
\* case-insensitively; 1, the first route, when none does
RouteForSNI ==
    LET listener == Listeners[hsOut.listener]
        hits == { r \in 1..Len(listener.Routes) :
                    \E d \in 1..Len(listener.Routes[r].Domains) :
                        ToLower(listener.Routes[r].Domains[d]) = ToLower(hsOut.serverName) }
    IN  IF hits = {} THEN 1 ELSE CHOOSE r \in hits : \A q \in hits : r <= q

\* C8 as stated: a handshake presenting a configured domain as SNI (compared
\* case-insensitively) receives exactly the certificate of the route that
\* lists the domain; an SNI that matches no domain receives the first route's
\* certificate and never an error.
C8_SNICertificateAlways ==
    Handshaken =>
        /\ hsOut.res.err = ""
        /\ hsOut.res.cert = CertOf(Listeners[hsOut.listener].Routes[RouteForSNI])

\* C8, amended: the same, whenever the files of the selected certificate load;
\* when they do not, the handshake gets the load error and no certificate.
C8_SNICertificate ==
    Handshaken =>
        /\ hsOut.loads =>
               /\ hsOut.res.err = ""
               /\ hsOut.res.cert = CertOf(Listeners[hsOut.listener].Routes[RouteForSNI])
        /\ ~hsOut.loads => (hsOut.res.err = "load" /\ hsOut.res.cert = NoCert)

\* an upper-case SNI of the second route of the first listener got that
\* route's certificate
C8_Witness ==
    /\ hsOut.listener = 1
    /\ hsOut.serverName = ToUpper(D_probler_dev)
    /\ hsOut.res.err = ""
    /\ hsOut.res.cert = CertOf(Listeners[1].Routes[2])

Proxied == prOut.listener # 0

\* C9: a request whose Host, port suffix stripped, equals a domain configured
\* on the listener is forwarded to the target port of that domain's route; a
\* request whose Host matches no configured domain of the listener is answered
\* 502 "Unknown host" and is not forwarded.
C9_HostRouting ==
    Proxied =>
        LET listener == Listeners[prOut.listener]
            exact == RoutesWith(SplitFirst(prOut.host, ":"), listener)
            any == RoutesWith(ToLower(SplitFirst(prOut.host, ":")), listener)
        IN  /\ \A r \in exact :
                  prOut.res.forwarded /\ prOut.res.port = listener.Routes[r].TargetPort
            /\ any = {} =>
                  /\ ~prOut.res.forwarded
                  /\ prOut.res.status = 502
                  /\ prOut.res.body = "Unknown host"

\* a request for the second route of the first listener, with a port in its
\* Host, went to that route's port
C9_Witness ==
    /\ prOut.listener = 1
    /\ prOut.host = D_www_probler_dev \o Port443
    /\ prOut.res.forwarded
    /\ prOut.res.port = "2443"

-----------------------------------------------------------------------------
(* Claims about Start *)

AllLaunched == \A i \in 1..NumListeners : lst[i] # "none"

SomeFailed == \E i \in 1..NumListeners : lst[i] \in {"failed", "ended"}

\* Start has returned to its caller
StartReturned == sPc \in {"returned", "exited"}

\* what C10 says of every state
C10_Safe ==
    /\ sPc \in {"wait", "returned"} => AllLaunched
    /\ StartReturned => (sRet # 0 /\ sRet = firstSent)
    /\ sPc = "returned" => SomeFailed
    /\ firstSent = 0 => ~StartReturned

\* C10: Start launches every listener before it blocks, returns only after a
\* listener has failed, returns exactly the first error sent on the channel,
\* and does return once an error has been sent.
C10_StartReturnsFirstError ==
    /\ []C10_Safe
    /\ (firstSent # 0) ~> StartReturned

\* two listeners had failed and reported before Start returned the first error
C10_Witness ==
    /\ sPc = "returned"
    /\ sRet = firstSent
    /\ errChan # <<>>
    /\ errChan[1] # sRet

\* the listeners that have not failed
NotFailed == {i \in 1..NumListeners : lst[i] \notin {"failed", "ended"}}

-----------------------------------------------------------------------------
(* Claims about login *)

\* the step in which the login handler runs
AuthStep == lPc = "serving" /\ lPc' = "done"

\* the login was answered 200
LoggedIn == lPc = "done" /\ lOut.status = 200

\* the adjacent networks whose Authenticate call succeeded for the login
Succeeded(l) == {i \in 1..NumAdjacent : ~l.adjacent[i].err}

\* C12: after a successful primary login, for each adjacent network whose
\* Authenticate call succeeded the pair (primaryToken -> that network's token)
\* is in the Federation Map, so that a later request can be authorized through
\* each such token.
C12_EachAdjacentRecorded ==
    LoggedIn =>
        \A i \in Succeeded(lReq) :
            /\ lReq.primary.token \in DOMAIN adjacentTokens
            /\ adjacentTokens[lReq.primary.token] = lReq.adjacent[i].token

\* C13: for fixed credentials and a fixed primary answer the login response is
\* the same whatever the adjacent Authenticate calls answer, and failing
\* adjacent calls add or change no Federation Map entry: the map changes at
\* most at the primary token, to a token of a call that succeeded, and not at
\* all when no call succeeded.
C13_AdjacentFailuresSwallowed ==
    [][AuthStep =>
          /\ \A adj \in [1..NumAdjacent -> AdjacentAnswers] :
                 AuthOut([lReq EXCEPT !.adjacent = adj]) = lOut'
          /\ \A k \in DOMAIN adjacentTokens :
                 (k \in DOMAIN adjacentTokens' /\
                  (k # lReq.primary.token => adjacentTokens'[k] = adjacentTokens[k]))
          /\ \A k \in DOMAIN adjacentTokens' :
                 k \in DOMAIN adjacentTokens \/ k = lReq.primary.token
          /\ Succeeded(lReq) = {} => adjacentTokens' = adjacentTokens
          /\ adjacentTokens' # adjacentTokens =>
                 \E i \in Succeeded(lReq) :
                     adjacentTokens'[lReq.primary.token] = lReq.adjacent[i].token]_vars

\* a login whose first adjacent call failed and whose second succeeded was
\* answered 200 and recorded the second network's token
C13_Witness ==
    /\ LoggedIn
    /\ lReq.adjacent[1].err
    /\ ~lReq.adjacent[2].err
    /\ lReq.adjacent[2].token = TokX
    /\ adjacentTokens[lReq.primary.token] = TokX

\* C14: a successful primary Authenticate yields status 200 with the
\* provider's token and its needTfa and setupTfa flags in the body, and sets
\* the bearer cookie (HttpOnly, Secure, SameSite=Strict, the fixed max-age) to
\* the token of the body.
C14_LoginSuccess ==
    (lPc = "done" /\ lReq.body = "ok" /\ ~lReq.primary.err) =>
        /\ lOut.status = 200
        /\ lOut.token = lReq.primary.token
        /\ lOut.needTfa = lReq.primary.needTfa
        /\ lOut.setupTfa = lReq.primary.setupTfa
        /\ lOut.error = ""
        /\ lOut.cookie.set
        /\ lOut.cookie.httpOnly /\ lOut.cookie.secure /\ lOut.cookie.sameSiteStrict
        /\ lOut.cookie.maxAge = CookieMaxAge
        /\ lOut.cookie.value = lOut.token

\* a login that still needs TFA verification got its token in body and cookie
C14_Witness ==
    /\ LoggedIn
    /\ lOut.needTfa
    /\ lOut.token = TokB
    /\ lOut.cookie.value = TokB

\* C15: credentials the primary provider rejects are answered 401 with a
\* populated error string; no bearer cookie is set, no adjacent network is
\* contacted and the Federation Map is left as it was.
C15_LoginFailure ==
    [][(AuthStep /\ lReq.body = "ok" /\ lReq.primary.err) =>
          /\ lOut'.status = 401
          /\ lOut'.error # ""
          /\ lOut'.token = Empty
          /\ ~lOut'.cookie.set
          /\ lOut'.contacted = 0
          /\ adjacentTokens' = adjacentTokens]_vars

\* a rejected login, with adjacent networks that would have accepted it, on a
\* gateway whose Federation Map already has an entry
C15_Witness ==
    /\ lPc = "done"
    /\ lReq.primary.err
    /\ lOut.status = 401
    /\ Succeeded(lReq) # {}
    /\ adjacentTokens # <<>>

-----------------------------------------------------------------------------
(* Claims about the clients *)

\* the call in progress was entered through GET, POST, PUT, PATCH, DELETE,
\* Query or Mutate, that is with tryCount 1
StartedAtOne == cl.op \in Ops \ {"Auth"}

\* every attempt of the call so far failed with a transient network error
\* (isTimeout slept after each of them)
AllTransient == cl.attempts > 0 /\ cl.waited = RetryWait * cl.attempts

\* C22: a call that starts at tryCount 1 makes at most 5 HTTP attempts in
\* total, however many of them fail with a transient network error.
C22_AtMostFiveAttempts ==
    (StartedAtOne /\ AllTransient) => cl.attempts <= MaxTryCount

-----------------------------------------------------------------------------
(* Claims about the locks *)

Structures == {"adjacentTokens", "endPoints"}

\* the goroutines holding the lock that guards the structure
HoldersOf(structure) == IF structure = "adjacentTokens" THEN held.mtx ELSE held.endPoints

\* C23: every read and write of the Federation Map and of the RegisteredEndpoints
\* set is made by a handler that holds the structure's lock, no two handlers
\* are at an access of the same structure at the same time, and no handler
\* holds a lock while it is inside a provider or overlay call.
C23_CriticalSections ==
    /\ \A p \in Tasks, s \in Structures : AtAccess(task[p], s) => p \in HoldersOf(s)
    /\ \A p, q \in Tasks, s \in Structures :
         (p # q /\ AtAccess(task[p], s)) => ~AtAccess(task[q], s)
    /\ \A p \in Tasks : AtCall(task[p]) => p \notin (held.mtx \cup held.endPoints)

\* a login is writing the map while a request waits for mtx, and a registration
\* has been through the endPoints set
C23_Witness ==
    /\ \E p, q \in Tasks :
         /\ task[p].kind = "login" /\ task[p].pc = "locked"
         /\ task[q].kind = "dispatch" /\ task[q].pc = "lock"
    /\ endPoints # {}

-----------------------------------------------------------------------------
(* Claims about certificate failures on a serving listener *)

\* the step is a handshake whose certificate failed to load
FailedHandshakeStep == hsOut' # hsOut /\ hsOut'.res.err = "load"

\* C24: a handshake whose certificate fails to load leaves its listener serving,
\* puts nothing on the error channel and does not make Start return; and every
\* handshake is resolved from the server name and the files as they are at that
\* handshake, whatever the handshakes before it did.
C24_LoadFailureLocal ==
    [][/\ FailedHandshakeStep =>
            /\ lst[hsOut'.listener] = "serving" /\ lst' = lst
            /\ errChan' = errChan /\ firstSent' = firstSent
            /\ sPc' = sPc /\ sRet' = sRet
       /\ hsOut' # hsOut =>
            hsOut'.res = getCertificateForListener(hsOut'.serverName,
                             Listeners[hsOut'.listener], hsOut'.loads)]_vars

\* a handshake failed to load its certificate on a listener that is still
\* serving, while Start still waits on the channel
C24_Witness ==
    /\ hsOut.res.err = "load"
    /\ lst[hsOut.listener] = "serving"
    /\ sPc = "wait" /\ errChan = <<>>

-----------------------------------------------------------------------------
(* Claims about the lifetime of Federation Map entries *)

\* C25: a key of the Federation Map stays in it through every step of every
\* login, request, registration and Stop; the map changes only by a login's
\* write of (its primary token -> the adjacent token it just obtained), which
\* adds the key or overwrites its value.
C25_NeverDeleted ==
    [][/\ DOMAIN adjacentTokens \subseteq DOMAIN adjacentTokens'
       /\ adjacentTokens' # adjacentTokens =>
            \E p \in Tasks :
                /\ task[p].kind = "login" /\ task[p].pc = "locked"
                /\ adjacentTokens' =
                       [k \in DOMAIN adjacentTokens \cup {task[p].bearer} |->
                           IF k = task[p].bearer THEN task[p].aToken
                           ELSE adjacentTokens[k]]]_vars

\* both primary tokens are recorded and a Stop has emptied the endPoints set
\* after a registration
C25_Witness ==
    /\ DOMAIN adjacentTokens = PrimaryTokens
    /\ \E p \in Tasks : task[p].kind = "stop" /\ task[p].pc = "done"
    /\ endPoints = {} /\ mux # <<>>

-----------------------------------------------------------------------------
(* Claims about the client's token *)

\* the end names the configured auth path, with or without its leading slash
NamesAuthPath(c, end) ==
    /\ ~c.AuthInfo.nil
    /\ end # Empty
    /\ end \in {c.AuthInfo.AuthPath, Tail(c.AuthInfo.AuthPath)}

\* C26 (the part that fails): over HTTPS with TokenRequired, a request that
\* carries no token is sent only to the configured auth path.
C26_TokenlessOnlyToAuthPath ==
    (cl.sent.made /\ rc.TokenRequired /\ rc.Https /\ cl.sent.authorization = Empty)
        => NamesAuthPath(rc, cl.sent.end)

-----------------------------------------------------------------------------
(* Claims about the client's errors *)

Non2xxStatuses == {Status199, Status300, Status401, Status502}
TransientErrors == {ErrTimeout, ErrReset, ErrTimedOut}

\* the answer is a non-2xx response, or a transport error that is neither a
\* timeout nor a connection reset
NotRetried(o) ==
    \/ o.kind = "response" /\ o.status \in Non2xxStatuses
    \/ o.kind = "error" /\ o.text \notin TransientErrors

\* the step is one activation of Do: a request is sent and answered
AttemptStep == cl.pc = "running" /\ cl'.attempts = cl.attempts + 1

\* C27: an activation of Do that is answered by a non-2xx response, or by a
\* transport error that is not a timeout or connection reset, returns at once
\* with an error and no message: it is not followed by another attempt and it
\* does not wait.
C27_NoRetryOnOtherErrors ==
    [][(AttemptStep /\ NotRetried(cl'.last)) =>
          /\ cl'.pc = "returned"
          /\ cl'.ret.err # "" /\ ~cl'.ret.msg
          /\ cl'.waited = cl.waited
          /\ cl'.tryCount = cl.tryCount]_vars

\* calls that returned after one attempt and no wait: a 401, and a refused
\* connection
C27_Witness ==
    /\ cl.pc = "returned" /\ cl.attempts = 1 /\ cl.waited = 0
    /\ cl.last.kind = "error" /\ cl.last.text = ErrRefused
    /\ cl.ret.err = "transport"

-----------------------------------------------------------------------------
(* Claims about ValidateBearerToken *)

\* the request with the Authorization header of r and nothing else
HeaderOnly(r) == [cookie |-> Empty, header |-> r.header, query |-> Empty]

\* C28 (the part that fails): when the Authorization header carries a token,
\* the credential ValidateBearerToken validates is the token extractToken
\* yields for that header.
C28_HeaderTokenAsExtracted ==
    (vbOut.validated /\ extractToken(HeaderOnly(tokReq)) # Empty) =>
        vbOut.credential = extractToken(HeaderOnly(tokReq))

-----------------------------------------------------------------------------
(* Claims about what authorizes a request *)

\* C29: with authentication enabled, the body of a request is read, parsed or
\* handed to the overlay only if some ValidateToken call made for that request
\* returned ok.
C29_OnlyValidatedGoOn ==
    (ServedWithAuth /\ (dOut.bodyRead \/ dOut.parsed \/ dOut.call.made)) =>
        SomeValidationOk

-----------------------------------------------------------------------------
(* Claims about the endPoints set and the mux *)

\* C30: after any sequence of NewRestServer, RegisterWebService and Stop, a
\* path is in the RegisteredEndpoints set exactly when the current mux has a
\* route for it, and no pattern is ever registered twice on one mux (which
\* would end the process in a panic).
C30_EndpointsMatchMux == ~crashed /\ endPoints = DOMAIN mux

-----------------------------------------------------------------------------
(* Claims about concurrent registrations *)

\* the registration found its path absent and has not yet called HandleFunc
FoundAbsent(t) == t.kind = "register" /\ t.pc \in {"epPut", "epPutting", "handle"}

\* C31: of the concurrent RegisterWebService calls for one endpoint, at most
\* one finds the path absent and goes on to register the handler.
C31_OneRegistersPath ==
    \A p, q \in Tasks :
        (p # q /\ FoundAbsent(task[p]) /\ FoundAbsent(task[q])) =>
            patternOf(task[p].reg.rs, task[p].reg.ws) #
                patternOf(task[q].reg.rs, task[q].reg.ws)

-----------------------------------------------------------------------------
(* Claims about the authentication endpoints *)

\* (a panic with lastReg cleared is one raised by Activate's HandleFunc calls)
\* C32: whenever a WebService has been activated since the current RestServer
\* was created, the current mux routes every authentication endpoint; and the
\* endpoints are never registered twice on one mux.
C32_AuthRoutesOnCurrentMux ==
    /\ activated => (crashed \/ AuthPatterns \subseteq DOMAIN mux)
    /\ ~(crashed /\ lastReg = NoReg)

-----------------------------------------------------------------------------
(* Claims about the error channel *)

\* the listeners whose task has sent its error and ended
Ended == {i \in 1..NumListeners : lst[i] = "ended"}

\* C33: a listener task that has failed can always send its error: the buffer
\* of the error channel has room for it whatever the other listeners did and
\* whether or not Start still receives; and no listener sends more than once
\* (the values that went through the channel are one per ended listener).
C33_SendNeverBlocks ==
    /\ \A i \in 1..NumListeners : lst[i] = "failed" => ENABLED Send(i)
    /\ Len(errChan) + (IF sPc \in {"returned", "exited"} THEN 1 ELSE 0) = Cardinality(Ended)
          \/ sPc = "exited"

\* Start has returned, errors of other listeners sit in the buffer that
\* nobody reads, and one more listener has failed and is about to send
C33_Witness ==
    /\ sPc = "returned"
    /\ Len(errChan) = NumListeners - 2
    /\ \E i \in 1..NumListeners : lst[i] = "failed"

-----------------------------------------------------------------------------
(* Claims about when Start returns *)

\* C34: Start returns only after a listener has failed and sent its error, and
\* the value it returns is a listener's error, never nil; and once a listener
\* has failed, Start does return.  With no failure, and so with no listener at
\* all, Start never returns.
C34_ReturnsIffFailure ==
    /\ [](StartReturned => (sRet # 0 /\ firstSent # 0))
    /\ (\E i \in DOMAIN lst : lst[i] = "failed") ~> StartReturned

\* Start has returned a listener's error while another listener serves
C34_Witness ==
    /\ sPc = "returned" /\ sRet # 0
    /\ \E i \in DOMAIN lst : lst[i] = "serving"

\* Start called on a configuration without listeners waits on the channel
C34_WitnessNoListener == lst = <<>> /\ sPc = "wait" /\ errChan = <<>>

-----------------------------------------------------------------------------
(* Claims about the login's response *)

\* the login is about to write its 200 response
Responding(t) == t.kind = "login" /\ t.pc = "respond"

-----------------------------------------------------------------------------
(* Claims about what a login leaves in the Federation Map *)

\* the adjacent networks, in configuration order, that accepted the login
Accepting(l) == {i \in 1..NumAdjacent : ~l.adjacent[i].err}

\* the last of them
LastAccepting(l) == CHOOSE i \in Accepting(l) : \A j \in Accepting(l) : j <= i

\* the login reaches the loop over the adjacent networks
ReachesAdjacents(l) == l.body = "ok" /\ ~l.primary.err

\* C36: the Federation Map is a map from primary token to one adjacent token.
\* A login whose credentials some adjacent network accepted leaves under its
\* primary token the token of the last accepting network, in configuration
\* order, and leaves every other entry alone; a login that no adjacent network
\* accepted, or that failed before the loop, leaves the map exactly as it was.
C36_LastAcceptingWins ==
    [][(lPc = "serving" /\ lPc' = "done") =>
          IF ReachesAdjacents(lReq) /\ Accepting(lReq) # {}
          THEN adjacentTokens' =
                  [k \in DOMAIN adjacentTokens \cup {lReq.primary.token} |->
                      IF k = lReq.primary.token
                      THEN lReq.adjacent[LastAccepting(lReq)].token
                      ELSE adjacentTokens[k]]
          ELSE adjacentTokens' = adjacentTokens]_vars

\* a login that two adjacent networks accepted with different tokens and a
\* later one refused or answered last
C36_Witness ==
    /\ lPc = "done" /\ ReachesAdjacents(lReq)
    /\ \E i, j \in Accepting(lReq) :
         /\ i < j /\ lReq.adjacent[i].token # lReq.adjacent[j].token
         /\ j = LastAccepting(lReq)
    /\ MapGet(adjacentTokens, lReq.primary.token).val =
           lReq.adjacent[LastAccepting(lReq)].token

-----------------------------------------------------------------------------
(* Claims about the health service *)

\* the direct request to the vnet, made without an identity argument
HealthDirect ==
    /\ dOut.call.made /\ dOut.call.kind = "Request" /\ dOut.call.dest = RemoteUuid
    /\ ~dOut.call.withId /\ dOut.call.identity = ""

\* the call carries the identity of a validation that accepted the request
\* (a handler without authentication validates nothing and passes "")
CarriesValidatedIdentity ==
    /\ dOut.call.withId
    /\ IF dReq.handler.authEnabled
       THEN \E i \in 1..Len(dOut.validated) :
                /\ dOut.validated[i].verdict.ok
                /\ dOut.call.identity = dOut.validated[i].verdict.id
       ELSE dOut.call.identity = ""

\* the health half of C37 alone: whatever Target, RoutingMethod, authentication
\* setting and verdict, a dispatched health request is the direct request
C37_HealthAlwaysDirect ==
    (Dispatched /\ dReq.handler.serviceName = HealthService) => HealthDirect

\* C37: a dispatched request for the health service is the direct request to
\* the vnet's RemoteUuid and carries no identity, whatever Target and
\* RoutingMethod are and whether or not authentication is enabled; a dispatched
\* request for any other service is routed by Target and RoutingMethod and
\* carries the identity of the validation that accepted it.
C37_HealthDirectOthersIdentified ==
    Dispatched =>
        IF dReq.handler.serviceName = HealthService
        THEN HealthDirect
        ELSE RoutedAsConfigured /\ CarriesValidatedIdentity

-----------------------------------------------------------------------------
(* Claims about repeated registrations of one path *)

\* C38: a RegisterWebService call, from any server and with any vnic, leaves
\* every handler the mux has as it is (its auth enforcement, vnic and service
\* descriptor are those of the registration that created it), and sets the
\* process-wide authEnabled flag to the calling server's Authentication.
C38_FirstRegistrationServes ==
    [][\A rs \in ServerConfigs, ws \in WebServices, vnic \in Vnics :
          RegisterWebService(rs, ws, vnic) =>
              /\ authEnabled' = rs.Authentication
              /\ \A path \in DOMAIN mux : MapGet(mux', path) = MapGet(mux, path)]_vars

\* the last registration found its path registered by a server with the other
\* Authentication setting and for another service area: the handler is the
\* first one, the flag is the last caller's
C38_Witness ==
    /\ lastReg # NoReg /\ ~crashed /\ ~firstAbsent
    /\ LET path == patternOf(lastReg.rs, lastReg.ws)
       IN  /\ path \in DOMAIN mux
           /\ mux[path].authEnabled # lastReg.rs.Authentication
           /\ mux[path].serviceArea # lastReg.ws.ServiceArea
           /\ mux[path].vnic = "vnic2"
    /\ authEnabled = lastReg.rs.Authentication

-----------------------------------------------------------------------------
(* Claims about the federation lookup key *)

\* the request was served by an authenticating handler that read the map
FellBack == dPc = "done" /\ dOut.fedRead

\* the Authorization value is the word Bearer or bearer, a space and a token
SchemeForms(t) == {BearerWord \o Space \o t, bearerWord \o Space \o t}

\* the Authorization value is a token alone: it has no space, so no scheme
BareToken(h) == h # Empty /\ IndexOf(h, " ") = 0

\* C39: on federation fallback the map is read under the presented token: the
\* values 'Bearer T' and 'bearer T' are looked up as T, and a token presented
\* without a scheme is looked up unchanged, so the key is the primary token
\* under which the login stored its entry.
C39_LookupKeyIsToken ==
    FellBack =>
        /\ \A t \in PrimaryTokens :
               dReq.header \in SchemeForms(t) => FedKey(dReq.header) = t
        /\ BareToken(dReq.header) => FedKey(dReq.header) = dReq.header

-----------------------------------------------------------------------------
(* Claims about the topology of NewReverseProxy *)

\* no value occurs twice in the sequence
NoRepeat(seq) == \A i, j \in 1..Len(seq) : seq[i] = seq[j] => i = j

\* the host is a domain of listeners a and b, which send it to different ports
SharedAcross(host, a, b) ==
    /\ a # b
    /\ MatchRoute(host, Listeners[a]) # 0 /\ MatchRoute(host, Listeners[b]) # 0
    /\ Listeners[a].Routes[MatchRoute(host, Listeners[a])].TargetPort #
           Listeners[b].Routes[MatchRoute(host, Listeners[b])].TargetPort

\* C40: in the topology of NewReverseProxy every listener registers each of
\* its host patterns once (no hostname is in two routes of one listener, nor
\* twice in one route), so a request served by a host pattern has exactly one
\* route on its listener and goes to that route's port; and some hostname is
\* on several listeners with different target ports.
C40_DomainsUniquePerListener ==
    /\ \A l \in 1..NumListeners :
          /\ NoRepeat(PatternsOf(Listeners[l]))
          /\ \A host \in DomainsOf(Listeners[l]) :
                Cardinality(RoutesWith(host, Listeners[l])) = 1
    /\ (prOut.listener # 0 /\ prOut.res.via = "domain") =>
          \E r \in 1..Len(Listeners[prOut.listener].Routes) :
              /\ RoutesWith(SplitFirst(prOut.host, ":"), Listeners[prOut.listener]) = {r}
              /\ prOut.res.port = Listeners[prOut.listener].Routes[r].TargetPort
    /\ \E host \in AllDomains, a, b \in 1..NumListeners : SharedAcross(host, a, b)

\* a request for www.probler.dev on the second listener went to 13443, while
\* the first listener sends the same host to 2443
C40_Witness ==
    /\ prOut.listener = 2 /\ prOut.host = D_www_probler_dev
    /\ prOut.res.via = "domain" /\ prOut.res.port = "13443"
    /\ SharedAcross(prOut.host, 1, 2)
    /\ ServeListener(prOut.host, Listeners[1]).port = "2443"

====
